---- MODULE Spec2Model ----
(***************************************************************************)
(* Model of the buyly cloud functions: the budget-alert monitor            *)
(* (checkBudgetAlert), the chunked bulk writers                            *)
(* (bulkUpdateTodosWithCreatedAt, fetchAllUsersAndSaveToFirestore) and the *)
(* notification fan-out of onGroceryItemAdded.                             *)
(*                                                                         *)
(* Every awaited call of a handler is one atomic step: the code between    *)
(* two awaits runs without interruption (single-threaded event loop), and  *)
(* other invocations may run between two awaits.                           *)
(***************************************************************************)
EXTENDS Integers, Sequences, FiniteSets, TLC

(***************************************************************************)
(* Bounds of the model.                                                    *)
(***************************************************************************)
\* history items created (one checkBudgetAlert invocation is triggered by each)
MaxInv == 2
\* the year the clock starts in; it starts in December, so that a tick
\* changes the year
StartYear == 2024

(***************************************************************************)
(* Program constants.                                                      *)
(***************************************************************************)
\* if (percentageSpent >= 50)
AlertThreshold == 50
\* getMonth() is 0..11
MonthsPerYear == 12

Users == {"u1", "u2"}
\* history item without a userId field
NoUser == "none"
\* item.totalAmount values of a history item (the field may also be missing)
Amounts == {2}
\* the months the server clock goes through, counted from January of
\* StartYear: December, then January of the next year
Months == {11, 12}

VARIABLES
    \* ---- budget alert monitor
    clock,          \* months elapsed since January of StartYear (new Date())
    users,          \* collection "users": userId -> [exists, data]
    authEmail,      \* auth provider: userId -> TRUE when the record has an email
    historyItems,   \* collection "history-items", in creation order
    budgetAlerts,   \* collection "budget-alerts": documents [id, data], one per id
    effects,        \* emails sent and store writes of checkBudgetAlert, in order
    inv,            \* checkBudgetAlert invocations, one per created history item
    \* ---- bulk writers
    bulk,           \* the run of a bulk script: its locals and the store it writes
    del,            \* the run of onUserDeleted: its locals and the user's documents
    \* ---- notification fan-out
    fan,            \* the run of onGroceryItemAdded
    \* ---- single calls
    push,           \* a call of sendBulkPushNotifications or testPushNotification
    val,            \* a call of an AI-output validator
    leave,          \* a call of leaveGroceryList
    credit,         \* a request to addCreditsToUser
    adds,           \* overlapping addCreditsToUser requests for one user
    test            \* a request to testBudgetAlert

alertVars == <<clock, users, authEmail, historyItems, budgetAlerts,
               effects, inv>>

bulkVars == <<bulk, del>>

fanVars == <<fan>>

moreVars == <<adds, test>>

restVars == <<push, val, leave, credit, adds, test>>

vars == <<clock, users, authEmail, historyItems, budgetAlerts,
          effects, inv, bulk, del, fan, push, val, leave, credit,
          adds, test>>

(***************************************************************************)
(* The arithmetic of (totalSpent / monthlyBudget) * 100: JavaScript numbers *)
(* are IEEE 754 doubles, and both the division and the multiplication      *)
(* round to the nearest double (ties to even). A positive double is        *)
(* [bits, exp]: its 53 significant bits, first bit 1, and the power of two *)
(* of its last bit; its value is bits * 2^exp.                             *)
(***************************************************************************)
\* significant bits of a double
Precision == 53

ZeroDouble == [bits |-> <<>>, exp |-> 0]

RECURSIVE Bits(_)
\* the binary digits of n, first digit 1 (none for 0)
Bits(n) == IF n = 0 THEN <<>> ELSE Bits(n \div 2) \o <<n % 2>>

RECURSIVE Zeros(_)
Zeros(n) == IF n <= 0 THEN <<>> ELSE <<0>> \o Zeros(n - 1)

RECURSIVE LeadingZeros(_, _)
\* the zeros after the binary point of r / y, for 0 < r < y
LeadingZeros(r, y) == IF 2 * r >= y THEN 0 ELSE 1 + LeadingZeros(2 * r, y)

RECURSIVE Pow2(_)
Pow2(n) == IF n = 0 THEN 1 ELSE 2 * Pow2(n - 1)

RECURSIVE FracBits(_, _, _)
\* the first n binary digits of r / y after the point, for r < y
FracBits(r, y, n) ==
    IF n = 0 THEN <<>>
    ELSE LET d == IF 2 * r >= y THEN 1 ELSE 0
         IN <<d>> \o FracBits(2 * r - d * y, y, n - 1)

RECURSIVE FracRem(_, _, _)
\* the remainder of r / y after n binary digits
FracRem(r, y, n) ==
    IF n = 0 THEN r
    ELSE FracRem(2 * r - (IF 2 * r >= y THEN y ELSE 0), y, n - 1)

RECURSIVE Inc(_)
\* bits + 1 (one digit longer when every bit is 1)
Inc(bits) ==
    IF bits = <<>> THEN <<1>>
    ELSE IF bits[Len(bits)] = 0
         THEN SubSeq(bits, 1, Len(bits) - 1) \o <<1>>
         ELSE Inc(SubSeq(bits, 1, Len(bits) - 1)) \o <<0>>

\* round to nearest, ties to even: guard is the first digit dropped, sticky
\* tells whether a later dropped digit is 1
RoundNearestEven(bits, guard, sticky, exp) ==
    IF guard = 1 /\ (sticky \/ bits[Len(bits)] = 1)
    THEN LET up == Inc(bits)
         IN IF Len(up) > Len(bits)
            THEN [bits |-> SubSeq(up, 1, Len(bits)), exp |-> exp + 1]
            ELSE [bits |-> up, exp |-> exp]
    ELSE [bits |-> bits, exp |-> exp]

\* the double nearest to the digits `all` * 2^exp
ToDouble(all, exp) ==
    IF Len(all) <= Precision
    THEN [bits |-> all \o Zeros(Precision - Len(all)),
          exp |-> exp - (Precision - Len(all))]
    ELSE RoundNearestEven(SubSeq(all, 1, Precision), all[Precision + 1],
                          \E k \in (Precision + 2)..Len(all) : all[k] = 1,
                          exp + (Len(all) - Precision))

\* x / y for integers x >= 0, y > 0
DoubleDiv(x, y) ==
    IF x = 0 THEN ZeroDouble
    ELSE LET ib == Bits(x \div y)
             r0 == x % y
             z == IF ib # <<>> \/ r0 = 0 THEN 0 ELSE LeadingZeros(r0, y)
             rs == r0 * Pow2(z)
             nf == Precision - Len(ib)
             fb == FracBits(rs, y, nf + 1)
         IN RoundNearestEven(ib \o SubSeq(fb, 1, nf), fb[nf + 1],
                             FracRem(rs, y, nf + 1) # 0, 0 - (z + nf))

RECURSIVE Value(_)
\* the number with the binary digits bits (at most 30 of them)
Value(bits) ==
    IF bits = <<>> THEN 0
    ELSE 2 * Value(SubSeq(bits, 1, Len(bits) - 1)) + bits[Len(bits)]

\* long multiplication works on limbs of 20 binary digits
Limb == Pow2(20)

\* the 20 binary digits of the limb n
LimbBits(n) == Zeros(20 - Len(Bits(n))) \o Bits(n)

RECURSIVE TimesLimbs(_, _, _)
\* the digits of bits * k + carry, by limbs from the last digit on, for
\* k < 2048
TimesLimbs(bits, k, carry) ==
    IF Len(bits) <= 20
    THEN Bits(Value(bits) * k + carry)
    ELSE LET n == Len(bits)
             p == Value(SubSeq(bits, n - 19, n)) * k + carry
         IN TimesLimbs(SubSeq(bits, 1, n - 20), k, p \div Limb)
            \o LimbBits(p % Limb)

\* d * k for a double d and an integer k > 0
DoubleTimes(d, k) ==
    IF d = ZeroDouble THEN ZeroDouble
    ELSE ToDouble(TimesLimbs(d.bits, k, 0), d.exp)

\* (totalSpent / monthlyBudget) * 100 for a budget other than 0
DoublePercentage(totalSpent, monthlyBudget) ==
    DoubleTimes(DoubleDiv(totalSpent, monthlyBudget), 100)

\* the double of the integer n
DoubleOfInt(n) == IF n = 0 THEN ZeroDouble ELSE ToDouble(Bits(n), 0)

RECURSIVE BitsLess(_, _)
\* a < b for digit sequences of equal length
BitsLess(a, b) ==
    /\ a # <<>>
    /\ \/ a[1] < b[1]
       \/ a[1] = b[1] /\ BitsLess(Tail(a), Tail(b))

\* d >= e for doubles that are 0 or positive
DoubleAtLeast(d, e) ==
    IF e = ZeroDouble THEN TRUE
    ELSE IF d = ZeroDouble THEN FALSE
    ELSE \/ d.exp > e.exp
         \/ d.exp = e.exp /\ ~BitsLess(d.bits, e.bits)

(***************************************************************************)
(* Pure helpers of checkBudgetAlert.                                       *)
(***************************************************************************)
getFullYear(date) == StartYear + (date \div MonthsPerYear)

getMonth(date) == date % MonthsPerYear

\* `${userId}_${currentDate.getFullYear()}_${currentDate.getMonth()}`
AlertDocId(userId, date) == <<userId, getFullYear(date), getMonth(date)>>

\* longest userId for which the document id is formatted
MaxIdLen == 3

DigitChars == <<"0", "1", "2", "3", "4", "5", "6", "7", "8", "9">>

RECURSIVE Digits(_)
\* the decimal digits of n, as a template literal prints a number
Digits(n) ==
    IF n < 10 THEN <<DigitChars[n + 1]>>
    ELSE Digits(n \div 10) \o <<DigitChars[(n % 10) + 1]>>

\* variant: the document id leaves out the year
AlertDocKeyNoYear(userId, year, month) == userId \o <<"_">> \o Digits(month)

\* `${userId}_${currentDate.getFullYear()}_${currentDate.getMonth()}`, the
\* userId being a sequence of characters
AlertDocKey(userId, year, month) ==
    userId \o <<"_">> \o Digits(year) \o <<"_">> \o Digits(month)

\* userIds made of letters, digits and the separator itself
UserIdStrings ==
    UNION {[1..n -> {"u", "1", "_"}] : n \in 1..MaxIdLen}

\* the (userId, year, month) triples the document id is formatted for
KeyInputs ==
    UserIdStrings \X {1, 11, StartYear, StartYear + 1} \X (0..(MonthsPerYear - 1))

\* variant: the userId of the history item is not checked
HasNoPayloadOnlySnapshot(hasSnapshot, userId) == ~hasSnapshot

\* if (!snapshot) return; ... if (!userId) return;
HasNoPayload(hasSnapshot, userId) == ~hasSnapshot \/ userId = NoUser

\* db.collection(...).doc(id).get(): the document, which does not exist when
\* the collection holds none with this id
GetDoc(collection, id) ==
    IF id \in DOMAIN collection THEN collection[id]
    ELSE [exists |-> FALSE, data |-> [name |-> "n"]]

\* variant: only a missing field counts, a budget of 0 goes on
HasNoBudgetOnlyMissing(userData) == ~("budget" \in DOMAIN userData)

\* !userData?.budget : the field is missing or its value is falsy
HasNoBudget(userData) ==
    \/ ~("budget" \in DOMAIN userData)
    \/ userData.budget = 0

\* item.totalAmount || 0
AmountOf(item) ==
    IF "totalAmount" \in DOMAIN item THEN item.totalAmount ELSE 0

\* .where("userId", "==", userId).where("date", ">=", startOfMonth)
\* .where("date", "<=", endOfMonth), dates at the granularity of a month
InWindow(item, userId, date) ==
    /\ item.userId = userId
    /\ item.date = date

RECURSIVE SumAmounts(_, _, _)
\* let totalSpent = 0; historyQuery.docs.forEach(... totalSpent += ...)
SumAmounts(items, userId, date) ==
    IF items = <<>> THEN 0
    ELSE (IF InWindow(Head(items), userId, date) THEN AmountOf(Head(items)) ELSE 0)
         + SumAmounts(Tail(items), userId, date)

\* the double 50 of percentageSpent >= 50, and its half
ThresholdDouble == DoubleOfInt(AlertThreshold)

QuarterDouble == DoubleOfInt(AlertThreshold \div 2)

\* const percentageSpent = (totalSpent / monthlyBudget) * 100; a division by
\* zero gives Infinity, or NaN for 0 / 0
\* (totalSpent / monthlyBudget) * 100 for the sums and budgets that occur,
\* computed once
Percentages ==
    [totalSpent \in 0..(4 * MaxInv) |->
        [monthlyBudget \in {4, 8} |-> DoublePercentage(totalSpent, monthlyBudget)]]

PercentageSpent(totalSpent, monthlyBudget) ==
    IF monthlyBudget = 0
    THEN [kind |-> IF totalSpent = 0 THEN "NaN" ELSE "Infinity", value |-> ZeroDouble]
    ELSE [kind |-> "number",
          value |-> IF totalSpent \in DOMAIN Percentages
                       /\ monthlyBudget \in DOMAIN Percentages[totalSpent]
                    THEN Percentages[totalSpent][monthlyBudget]
                    ELSE DoublePercentage(totalSpent, monthlyBudget)]

\* variant: the alert fires from a quarter of the budget on
CrossedQuarter(percentageSpent) ==
    CASE percentageSpent.kind = "NaN" -> FALSE
      [] percentageSpent.kind = "Infinity" -> TRUE
      [] OTHER -> DoubleAtLeast(percentageSpent.value, QuarterDouble)

\* variant: the alert fires only above half of the budget
CrossedThresholdStrict(percentageSpent) ==
    CASE percentageSpent.kind = "NaN" -> FALSE
      [] percentageSpent.kind = "Infinity" -> TRUE
      [] OTHER -> /\ DoubleAtLeast(percentageSpent.value, ThresholdDouble)
                  /\ percentageSpent.value # ThresholdDouble

\* if (percentageSpent >= 50): a comparison with NaN is false
CrossedThreshold(percentageSpent) ==
    CASE percentageSpent.kind = "NaN" -> FALSE
      [] percentageSpent.kind = "Infinity" -> TRUE
      [] OTHER -> DoubleAtLeast(percentageSpent.value, ThresholdDouble)

\* variant: any AlertRecord counts, whatever its id
AlertDocExistsAnyId(alerts, id) == alerts # {}

\* db.collection("budget-alerts").doc(id).get() ... alertDoc.exists
AlertDocExists(alerts, id) == \E d \in alerts : d.id = id

\* variant: every write adds a document, as collection.add(data) would
SetDocAdds(alerts, id, data) == alerts \cup {[id |-> id, data |-> data]}

\* db.collection("budget-alerts").doc(id).set(data): creates the document or
\* replaces the one with this id
SetDoc(alerts, id, data) ==
    {d \in alerts : d.id # id} \cup {[id |-> id, data |-> data]}

(***************************************************************************)
(* Invocations of checkBudgetAlert.                                        *)
(***************************************************************************)
NoPercentage == [kind |-> "NaN", value |-> ZeroDouble]

\* pc names the awaited call the invocation performs next; ops lists the
\* awaited calls it has completed; failedAt names the call that threw
\* landedAtClock, landedAtRead: a write of this invocation's AlertRecord id had
\* landed when it read the clock, when it read the AlertRecord
IdleInv == [pc |-> "none", hasSnapshot |-> FALSE, userId |-> NoUser,
            monthlyBudget |-> 0, currentDate |-> 0,
            totalSpent |-> 0, percentageSpent |-> NoPercentage,
            landedAtClock |-> FALSE, landedAtRead |-> FALSE,
            ops |-> <<>>, failedAt |-> "none"]

Landed(id) ==
    \E k \in DOMAIN effects : effects[k].kind = "write" /\ effects[k].id = id

\* variant: the AlertRecord is read and ignored
AfterAlertReadAlwaysSends(exists) == "send"

\* if (alertDoc.exists) { ...; return; } and then the send
AfterAlertRead(exists) == IF exists THEN "done" ELSE "send"

\* variant: the email of the auth record is not checked
AfterAuthLookupIgnoresEmail(hasEmail) == "query"

\* if (!userRecord.email) { logger.error(...); return; }
AfterAuthLookup(hasEmail) == IF hasEmail THEN "query" ELSE "done"

\* variant: the catch logs the error and returns
AfterThrowSwallowsAll(pc) == "done"

\* variant: a rejected send is swallowed and the handler goes on to the write
AfterThrowSwallowsSend(pc) == IF pc = "send" THEN "write" ELSE "threw"

\* catch (error) { logger.error(...); throw error; }
AfterThrow(pc) == "threw"

Running == {"getAuth", "query", "readAlert", "send", "write"}

NumRunning == Cardinality({i \in 1..MaxInv : inv[i].pc \in Running})

NumCreated == Cardinality({i \in 1..MaxInv : inv[i].pc # "none"})

\* users/u1 holds a budget of 4 and u1 has an email; users/u2 is missing, or
\* lacks the budget field, or holds a budget of 0, or holds a budget of 8 (with
\* or without an email in the auth record).
BudgetDoc(budget) == [exists |-> TRUE, data |-> [name |-> "n", budget |-> budget]]

OtherUserSetups ==
    {[doc |-> [exists |-> FALSE, data |-> [name |-> "n"]], email |-> TRUE],
     [doc |-> [exists |-> TRUE, data |-> [name |-> "n"]], email |-> TRUE],
     [doc |-> BudgetDoc(0), email |-> TRUE],
     [doc |-> BudgetDoc(8), email |-> TRUE],
     [doc |-> BudgetDoc(8), email |-> FALSE]}

AlertInit ==
    /\ clock = MonthsPerYear - 1
    /\ \E other \in OtherUserSetups :
          /\ users = [u \in Users |-> IF u = "u1" THEN BudgetDoc(4) ELSE other.doc]
          /\ authEmail = [u \in Users |-> IF u = "u1" THEN TRUE ELSE other.email]
    /\ historyItems = <<>>
    /\ budgetAlerts = {}
    /\ effects = <<>>
    /\ inv = [i \in 1..MaxInv |-> IdleInv]

\* The client logs a shopping trip: a history item is created, dated now, and
\* the creation event is queued for checkBudgetAlert. The item may lack its
\* totalAmount, or its userId.
NewItems ==
    {[userId |-> NoUser, date |-> clock]}
    \cup {[userId |-> u, date |-> clock] : u \in Users}
    \cup {[userId |-> u, date |-> clock, totalAmount |-> a] : u \in Users, a \in Amounts}

CreateHistoryItem ==
    /\ NumCreated < MaxInv
    /\ \E item \in NewItems :
          /\ historyItems' = Append(historyItems, item)
          /\ inv' = [inv EXCEPT ![NumCreated + 1] =
                        [IdleInv EXCEPT !.pc = "queued", !.hasSnapshot = TRUE,
                                        !.userId = item.userId]]
    /\ UNCHANGED <<clock, users, authEmail, budgetAlerts, effects, bulkVars, fanVars, restVars>>

\* The infrastructure delivers an event that carries no snapshot.
EmptyEvent ==
    /\ NumCreated < MaxInv
    /\ inv' = [inv EXCEPT ![NumCreated + 1] = [IdleInv EXCEPT !.pc = "queued"]]
    /\ UNCHANGED <<clock, users, authEmail, historyItems, budgetAlerts,
                   effects, bulkVars, fanVars, restVars>>

\* The server's calendar month changes.
Tick ==
    /\ clock + 1 \in Months
    /\ clock' = clock + 1
    /\ UNCHANGED <<users, authEmail, historyItems, budgetAlerts, effects, inv, bulkVars, fanVars, restVars>>

\* Lines 10-46: the payload checks, the read of users/{userId} and the budget
\* check. mayStart is the scheduling of the hosting infrastructure.
StartCheck(i, mayStart) ==
    /\ inv[i].pc = "queued"
    /\ mayStart
    /\ IF HasNoPayload(inv[i].hasSnapshot, inv[i].userId)
       THEN inv' = [inv EXCEPT ![i].pc = "done"]
       ELSE LET userDoc == GetDoc(users, inv[i].userId) IN
            IF ~userDoc.exists
            THEN inv' = [inv EXCEPT ![i].pc = "done", ![i].ops = Append(@, "getUserDoc")]
            ELSE IF HasNoBudget(userDoc.data)
            THEN inv' = [inv EXCEPT ![i].pc = "done", ![i].ops = Append(@, "getUserDoc")]
            ELSE inv' = [inv EXCEPT ![i].pc = "getAuth",
                                    ![i].monthlyBudget = userDoc.data.budget,
                                    ![i].ops = Append(@, "getUserDoc")]
    /\ UNCHANGED <<clock, users, authEmail, historyItems, budgetAlerts,
                   effects, bulkVars, fanVars, restVars>>

\* Lines 49-69: the auth lookup, the email check and the clock reading.
GetAuthUser(i) ==
    /\ inv[i].pc = "getAuth"
    /\ IF AfterAuthLookup(authEmail[inv[i].userId]) = "done"
       THEN inv' = [inv EXCEPT ![i].pc = "done", ![i].ops = Append(@, "getAuth")]
       ELSE inv' = [inv EXCEPT ![i].pc = "query", ![i].ops = Append(@, "getAuth"),
                               ![i].currentDate = clock,
                               ![i].landedAtClock =
                                   Landed(AlertDocId(inv[i].userId, clock))]
    /\ UNCHANGED <<clock, users, authEmail, historyItems, budgetAlerts,
                   effects, bulkVars, fanVars, restVars>>

\* Lines 72-94: the month's history query, the sum and the threshold test.
QueryHistory(i) ==
    /\ inv[i].pc = "query"
    /\ LET totalSpent == SumAmounts(historyItems, inv[i].userId, inv[i].currentDate)
           percentageSpent == PercentageSpent(totalSpent, inv[i].monthlyBudget)
       IN inv' = [inv EXCEPT ![i].totalSpent = totalSpent,
                             ![i].percentageSpent = percentageSpent,
                             ![i].ops = Append(@, "query"),
                             ![i].pc = IF CrossedThreshold(percentageSpent)
                                       THEN "readAlert" ELSE "done"]
    /\ UNCHANGED <<clock, users, authEmail, historyItems, budgetAlerts,
                   effects, bulkVars, fanVars, restVars>>

\* Lines 96-117: the read of budget-alerts/{userId_year_month}.
ReadAlertDoc(i) ==
    /\ inv[i].pc = "readAlert"
    /\ LET id == AlertDocId(inv[i].userId, inv[i].currentDate)
       IN inv' = [inv EXCEPT ![i].landedAtRead = Landed(id),
                             ![i].ops = Append(@, "readAlert"),
                             ![i].pc = AfterAlertRead(AlertDocExists(budgetAlerts, id))]
    /\ UNCHANGED <<clock, users, authEmail, historyItems, budgetAlerts,
                   effects, bulkVars, fanVars, restVars>>

\* Line 119: await sendBudgetAlertEmail(userRecord.email, budgetAlertData).
SendBudgetAlertEmail(i) ==
    /\ inv[i].pc = "send"
    /\ effects' = Append(effects,
                         [kind |-> "email", inv |-> i,
                          id |-> AlertDocId(inv[i].userId, inv[i].currentDate)])
    /\ inv' = [inv EXCEPT ![i].pc = "write", ![i].ops = Append(@, "send")]
    /\ UNCHANGED <<clock, users, authEmail, historyItems, budgetAlerts, bulkVars, fanVars, restVars>>

\* Lines 122-141: the AlertRecord is set under the deterministic id.
WriteAlertDoc(i) ==
    /\ inv[i].pc = "write"
    /\ LET id == AlertDocId(inv[i].userId, inv[i].currentDate) IN
       /\ budgetAlerts' = SetDoc(budgetAlerts, id,
                                 [userId |-> inv[i].userId,
                                  monthlyBudget |-> inv[i].monthlyBudget,
                                  amountSpent |-> inv[i].totalSpent,
                                  percentageSpent |-> inv[i].percentageSpent,
                                  month |-> getMonth(inv[i].currentDate),
                                  year |-> getFullYear(inv[i].currentDate)])
       /\ effects' = Append(effects, [kind |-> "write", inv |-> i, id |-> id])
    /\ inv' = [inv EXCEPT ![i].pc = "done", ![i].ops = Append(@, "write")]
    /\ UNCHANGED <<clock, users, authEmail, historyItems, bulkVars, fanVars, restVars>>

\* Lines 143-146: an awaited call rejects; the handler logs and rethrows.
Throw(i) ==
    /\ \/ inv[i].pc \in Running
       \/ inv[i].pc = "queued" /\ ~HasNoPayload(inv[i].hasSnapshot, inv[i].userId)
    /\ inv' = [inv EXCEPT ![i].pc = AfterThrow(inv[i].pc),
                          ![i].failedAt = IF inv[i].pc = "queued" THEN "getUserDoc"
                                          ELSE inv[i].pc]
    /\ UNCHANGED <<clock, users, authEmail, historyItems, budgetAlerts,
                   effects, bulkVars, fanVars, restVars>>

(***************************************************************************)
(* The chunked bulk writers: bulkUpdateTodosWithCreatedAt ("todos") and    *)
(* fetchAllUsersAndSaveToFirestore ("users").                              *)
(* Documents are numbered 1..size in the order the snapshot (or the user   *)
(* listing) enumerates them.                                               *)
(***************************************************************************)
\* const batchSize = 500
batchSize == 500
\* snapshot sizes reach MaxBatches * batchSize + 1
MaxBatches == 2

\* sizes at and next to the multiples of batchSize
SnapshotSizes ==
    {n \in {k * batchSize + d : k \in 0..MaxBatches, d \in {-1, 0, 1}} : n >= 0}

\* which todos already have a createdAt: none, every second one, or all
Patterns == {"none", "even", "all"}

\* todoData.createdAt is set
HasCreatedAt(d, pattern) ==
    CASE pattern = "none" -> FALSE
      [] pattern = "even" -> d % 2 = 0
      [] OTHER -> TRUE

\* variant: the batch is committed one operation late
BatchIsFullOffByOne(batchCount) == batchCount = batchSize + 1

\* if (batchCount === batchSize)
BatchIsFull(batchCount) == batchCount = batchSize

\* variant: the final commit is not guarded
HasRemainingAlways(batchCount) == TRUE

\* if (batchCount > 0) before the final commit
HasRemaining(batchCount) == batchCount > 0

\* if (batchCount === batchSize || i === allUsers.length - 1)
\* (the model's i is the code's i + 1)
BatchIsDue(batchCount, i, length) == BatchIsFull(batchCount) \/ i = length

\* variant: the batch object keeps its staged operations after the commit
ResetBatchKeepsOps(batch) == batch

\* const newBatch = db.batch(); Object.setPrototypeOf(batch, ...);
\* Object.assign(batch, newBatch): the batch object takes the fields of a new
\* batch, among them its empty list of operations
ResetBatch(batch) == {}

NoResult == [success |-> FALSE, total |-> 0, updated |-> 0, skipped |-> 0]

\* batch: the documents staged in the WriteBatch; commits: the committed
\* batches, each with the loop index it was committed at; written: the
\* documents of the store the operation has been applied to
IdleBulk == [script |-> "off", pc |-> "off", size |-> 0, pattern |-> "none",
             i |-> 1, batchCount |-> 0, batch |-> {}, commits |-> <<>>,
             written |-> {},
             updatedCount |-> 0, skippedCount |-> 0, result |-> NoResult]

BulkRuns ==
    \E size \in SnapshotSizes, pattern \in Patterns, script \in {"todos", "users"} :
        /\ script = "users" => pattern = "none"
        /\ bulk = [IdleBulk EXCEPT !.script = script, !.pc = "start",
                                   !.size = size, !.pattern = pattern]

\* variant: a commit that leaves out the operation staged last
CommitPartial(b) ==
    [b EXCEPT !.commits = Append(@, [docs |-> b.batch, upTo |-> b.i]),
              !.written = @ \cup (b.batch \ {b.i})]

\* batch.commit(): the staged operations are applied to the store atomically
Commit(b) ==
    [b EXCEPT !.commits = Append(@, [docs |-> b.batch, upTo |-> b.i]),
              !.written = @ \cup b.batch]

\* bulkUpdateTodos.ts lines 39-58: the snapshot is read; an empty collection
\* returns at once.
TodosStart ==
    /\ bulk.script = "todos" /\ bulk.pc = "start"
    /\ bulk' = IF bulk.size = 0
               THEN [bulk EXCEPT !.pc = "done",
                                 !.result = [success |-> TRUE, total |-> 0,
                                             updated |-> 0, skipped |-> 0]]
               ELSE [bulk EXCEPT !.pc = "loop"]
    /\ UNCHANGED <<alertVars, del, fanVars, restVars>>

\* bulkUpdateTodos.ts lines 60-95: one iteration of the loop over the todos.
TodosIterate ==
    /\ bulk.script = "todos" /\ bulk.pc = "loop" /\ bulk.i <= bulk.size
    /\ IF HasCreatedAt(bulk.i, bulk.pattern)
       THEN bulk' = [bulk EXCEPT !.skippedCount = @ + 1, !.i = @ + 1]
       ELSE LET staged == [bulk EXCEPT !.batch = @ \cup {bulk.i},
                                       !.updatedCount = @ + 1,
                                       !.batchCount = @ + 1]
            IN IF BatchIsFull(staged.batchCount)
               THEN \/ bulk' = [Commit(staged) EXCEPT !.batch = ResetBatch(@),
                                                      !.batchCount = 0, !.i = @ + 1]
                    \/ bulk' = [staged EXCEPT !.pc = "threw"]
               ELSE bulk' = [staged EXCEPT !.i = @ + 1]
    /\ UNCHANGED <<alertVars, del, fanVars, restVars>>

\* bulkUpdateTodos.ts lines 97-118: the remaining updates are committed and
\* the statistics returned.
TodosFinish ==
    /\ bulk.script = "todos" /\ bulk.pc = "loop" /\ bulk.i > bulk.size
    /\ LET result == [success |-> TRUE, total |-> bulk.size,
                      updated |-> bulk.updatedCount, skipped |-> bulk.skippedCount]
       IN IF HasRemaining(bulk.batchCount)
          THEN \/ bulk' = [Commit(bulk) EXCEPT !.pc = "done", !.result = result]
               \/ bulk' = [bulk EXCEPT !.pc = "threw"]
          ELSE bulk' = [bulk EXCEPT !.pc = "done", !.result = result]
    /\ UNCHANGED <<alertVars, del, fanVars, restVars>>

\* fetchUsersToFirestore.ts lines 56-113: every page of the auth listing is
\* fetched into allUsers.
UsersStart ==
    /\ bulk.script = "users" /\ bulk.pc = "start"
    /\ bulk' = [bulk EXCEPT !.pc = "loop"]
    /\ UNCHANGED <<alertVars, del, fanVars, restVars>>

\* fetchUsersToFirestore.ts lines 115-145: one iteration of the loop over
\* allUsers.
UsersIterate ==
    /\ bulk.script = "users" /\ bulk.pc = "loop" /\ bulk.i <= bulk.size
    /\ LET staged == [bulk EXCEPT !.batch = @ \cup {bulk.i}, !.batchCount = @ + 1]
       IN IF BatchIsDue(staged.batchCount, bulk.i, bulk.size)
          THEN \/ bulk' = [Commit(staged) EXCEPT
                              !.batch = IF bulk.i < bulk.size THEN ResetBatch(@) ELSE @,
                              !.batchCount = 0, !.i = @ + 1]
               \/ bulk' = [staged EXCEPT !.pc = "threw"]
          ELSE bulk' = [staged EXCEPT !.i = @ + 1]
    /\ UNCHANGED <<alertVars, del, fanVars, restVars>>

\* fetchUsersToFirestore.ts lines 147-179: the summary is returned.
UsersFinish ==
    /\ bulk.script = "users" /\ bulk.pc = "loop" /\ bulk.i > bulk.size
    /\ bulk' = [bulk EXCEPT !.pc = "done",
                            !.result = [success |-> TRUE, total |-> bulk.size,
                                        updated |-> bulk.size, skipped |-> 0]]
    /\ UNCHANGED <<alertVars, del, fanVars, restVars>>

\* the read of the snapshot, or of a page of the listing, rejects
BulkReadFails ==
    /\ bulk.pc = "start"
    /\ bulk' = [bulk EXCEPT !.pc = "threw"]
    /\ UNCHANGED <<alertVars, del, fanVars, restVars>>

(***************************************************************************)
(* onUserDeleted: the documents of the deleted user are removed, one       *)
(* WriteBatch per collection.                                              *)
(***************************************************************************)
\* documents a user owns in one collection
MaxOwned == 2

Collections == {"grocery-items", "todos", "grocery-lists", "history-items",
                "recent-search-items"}

\* snapshot.empty
SnapshotEmpty(docs) == docs = {}

\* owned: the documents with userId = uid, per collection; historySnapshot:
\* the history-items read at line 36, deleted at line 93; commits: the
\* committed delete batches
IdleDel == [pc |-> "off", userDoc |-> FALSE, deletedUser |-> FALSE,
            owned |-> [c \in Collections |-> {}], historySnapshot |-> {},
            commits |-> <<>>, retries |-> 0]

DelRuns ==
    \E n \in [Collections -> 0..MaxOwned], userDoc \in BOOLEAN :
        del = [IdleDel EXCEPT !.pc = "deleteUser", !.userDoc = userDoc,
                              !.owned = [c \in Collections |-> 1..n[c]]]

\* variant: the deletes are staged and the batch is never committed
DeleteBatchNotCommitted(d, col, snapshot) == d

\* the documents of snapshot are staged for deletion and the batch is
\* committed unless the snapshot is empty
DeleteBatch(d, col, snapshot) ==
    IF SnapshotEmpty(snapshot) THEN d
    ELSE [d EXCEPT !.owned[col] = @ \ snapshot,
                   !.commits = Append(@, [col |-> col, docs |-> snapshot])]

\* line 13: users/{uid} is deleted
DeleteUserDoc ==
    /\ del.pc = "deleteUser"
    /\ del' = [del EXCEPT !.userDoc = FALSE, !.pc = "grocery-items"]
    /\ UNCHANGED <<alertVars, bulk, fanVars, restVars>>

\* lines 16-33, 41-58, 60-77, 100-117: the user's documents of a collection
\* are queried and deleted in one batch
DeleteOwned(col, next) ==
    /\ del.pc = col
    /\ del' = [DeleteBatch(del, col, del.owned[col]) EXCEPT !.pc = next]
    /\ UNCHANGED <<alertVars, bulk, fanVars, restVars>>

\* lines 35-39: the user's history items are queried
QueryOwnedHistory ==
    /\ del.pc = "queryHistory"
    /\ del' = [del EXCEPT !.historySnapshot = del.owned["history-items"],
                          !.pc = "todos"]
    /\ UNCHANGED <<alertVars, bulk, fanVars, restVars>>

\* lines 78-85: deleted-users/{uid} is set
SetDeletedUser ==
    /\ del.pc = "setDeleted"
    /\ del' = [del EXCEPT !.deletedUser = TRUE, !.pc = "history-items"]
    /\ UNCHANGED <<alertVars, bulk, fanVars, restVars>>

\* lines 87-98: the history items read at line 36 are deleted in one batch
DeleteOwnedHistory ==
    /\ del.pc = "history-items"
    /\ del' = [DeleteBatch(del, "history-items", del.historySnapshot)
                  EXCEPT !.pc = "recent-search-items"]
    /\ UNCHANGED <<alertVars, bulk, fanVars, restVars>>

\* lines 120-123: an awaited call rejects; the handler logs and rethrows
DelThrows ==
    /\ del.pc \notin {"off", "done", "threw"}
    /\ del' = [del EXCEPT !.pc = "threw"]
    /\ UNCHANGED <<alertVars, bulk, fanVars, restVars>>

\* most re-runs of the handler after a failed run
MaxRetries == 2

\* the infrastructure runs the handler again for the same deleted user: the
\* locals of the failed run are gone, the store is as that run left it
DelRetry ==
    /\ del.pc = "threw"
    /\ del.retries < MaxRetries
    /\ del' = [del EXCEPT !.pc = "deleteUser", !.historySnapshot = {},
                          !.retries = @ + 1]
    /\ UNCHANGED <<alertVars, bulk, fanVars, restVars>>

BulkOff == bulk = IdleBulk /\ del = IdleDel

BulkInit ==
    \/ BulkRuns /\ del = IdleDel
    \/ bulk = IdleBulk /\ DelRuns

BulkNext ==
    \/ TodosStart
    \/ TodosIterate
    \/ TodosFinish
    \/ UsersStart
    \/ UsersIterate
    \/ UsersFinish
    \/ BulkReadFails
    \/ DeleteUserDoc
    \/ DeleteOwned("grocery-items", "queryHistory")
    \/ QueryOwnedHistory
    \/ DeleteOwned("todos", "grocery-lists")
    \/ DeleteOwned("grocery-lists", "setDeleted")
    \/ SetDeletedUser
    \/ DeleteOwnedHistory
    \/ DeleteOwned("recent-search-items", "done")
    \/ DelThrows

(***************************************************************************)
(* onGroceryItemAdded: a notification for every member of the grocery list *)
(* other than the user who added the item.                                 *)
(***************************************************************************)
\* longest members array of a grocery list
MaxMembers == 2

FanUsers == {"a", "b", "c", "d"}

\* groceryListData.owner is undefined
NoOwner == ""

RECURSIVE FilterBoolean(_)
\* [...].filter(Boolean)
FilterBoolean(ids) ==
    IF ids = <<>> THEN <<>>
    ELSE IF Head(ids) = NoOwner THEN FilterBoolean(Tail(ids))
         ELSE <<Head(ids)>> \o FilterBoolean(Tail(ids))

RECURSIVE FromSet(_, _)
\* Array.from(new Set(ids)): the first occurrence of every id, in order
FromSet(ids, seen) ==
    IF ids = <<>> THEN <<>>
    ELSE IF Head(ids) \in seen THEN FromSet(Tail(ids), seen)
         ELSE <<Head(ids)>> \o FromSet(Tail(ids), seen \cup {Head(ids)})

\* variant: the ids are not passed through a Set
AllMembersWithDuplicates(owner, members) == FilterBoolean(<<owner>> \o members)

\* allMembers
AllMembers(owner, members) == FromSet(FilterBoolean(<<owner>> \o members), {})

RECURSIVE ExcludeUser(_, _)
\* allMembers.filter((memberId) => memberId !== itemData.userId)
ExcludeUser(ids, userId) ==
    IF ids = <<>> THEN <<>>
    ELSE IF Head(ids) = userId THEN ExcludeUser(Tail(ids), userId)
         ELSE <<Head(ids)>> \o ExcludeUser(Tail(ids), userId)

MembersToNotify(owner, members, userId) ==
    ExcludeUser(AllMembers(owner, members), userId)

\* variant: the first failing member ends the loop
AfterMemberErrorAborts(idx, length) == length + 1

\* the inner catch logs memberError; the for-of loop goes on with the next
\* member
AfterMemberError(idx, length) == idx + 1

\* variant: the outer catch raises the error again
AfterOuterErrorRethrows(pc) == "threw"

\* catch (error) { logger.error(...); } with nothing thrown: the handler
\* returns
AfterOuterError(pc) == "done"

\* event: the event has no snapshot ("none"), the item has no GroceryListId
\* ("noList"), or both are there ("ok"); idx, step: the member the loop is at
\* and the next call of its unit of work; attempted, created, read, pushed:
\* the members whose unit of work started, whose notification document was
\* added, whose push tokens were read, who were sent a push; failedAt: the
\* step a member's unit of work threw at; outerError: the outer catch ran
IdleFan == [pc |-> "off", event |-> "ok", listExists |-> TRUE,
            owner |-> NoOwner, members |-> <<>>, userId |-> "a",
            membersToNotify |-> <<>>, idx |-> 1, step |-> "add",
            attempted |-> {}, created |-> {}, read |-> {}, pushed |-> {},
            failedAt |-> [m \in {} |-> "add"], outerError |-> FALSE]

FanOff == fan = IdleFan

MemberLists == UNION {[1..n -> FanUsers] : n \in 0..MaxMembers}

FanInit ==
    \/ \E event \in {"none", "noList"} :
           fan = [IdleFan EXCEPT !.pc = "start", !.event = event]
    \/ fan = [IdleFan EXCEPT !.pc = "start", !.listExists = FALSE]
    \/ \E owner \in FanUsers \cup {NoOwner}, members \in MemberLists,
          userId \in FanUsers :
           fan = [IdleFan EXCEPT !.pc = "start", !.owner = owner,
                                 !.members = members, !.userId = userId]

\* the member the loop is at
Member == fan.membersToNotify[fan.idx]

\* the unit of work of the member the loop is at is over
NextMember(f) == [f EXCEPT !.idx = @ + 1, !.step = "add"]

\* lines 222-228: the unit of work of the member threw at step fan.step
MemberFails(f) ==
    [f EXCEPT !.failedAt = [m \in DOMAIN @ \cup {f.membersToNotify[f.idx]} |->
                              IF m = f.membersToNotify[f.idx] THEN f.step ELSE @[m]],
              !.idx = AfterMemberError(f.idx, Len(f.membersToNotify)),
              !.step = "add"]

\* lines 93-112
FanStart ==
    /\ fan.pc = "start"
    /\ fan' = [fan EXCEPT !.pc = IF fan.event = "ok" THEN "getList" ELSE "done"]
    /\ UNCHANGED <<alertVars, bulkVars, restVars>>

\* lines 114-144
GetGroceryList ==
    /\ fan.pc = "getList"
    /\ IF ~fan.listExists
       THEN fan' = [fan EXCEPT !.pc = "done"]
       ELSE LET membersToNotify ==
                    MembersToNotify(fan.owner, fan.members, fan.userId)
            IN fan' = [fan EXCEPT !.membersToNotify = membersToNotify,
                                  !.pc = IF Len(membersToNotify) = 0
                                         THEN "done" ELSE "getAddedBy"]
    /\ UNCHANGED <<alertVars, bulkVars, restVars>>

\* lines 146-159
GetAddedByUser ==
    /\ fan.pc = "getAddedBy"
    /\ fan' = [fan EXCEPT !.pc = "loop"]
    /\ UNCHANGED <<alertVars, bulkVars, restVars>>

\* lines 234-237: a read outside the loop rejects; the outer catch logs and
\* the handler returns
OuterCatch ==
    /\ fan.pc \in {"getList", "getAddedBy"}
    /\ fan' = [fan EXCEPT !.pc = AfterOuterError(fan.pc), !.outerError = TRUE]
    /\ UNCHANGED <<alertVars, bulkVars, restVars>>

\* lines 162-188: notifications.add(notificationData)
CreateNotification ==
    /\ fan.pc = "loop" /\ fan.idx <= Len(fan.membersToNotify)
    /\ fan.step = "add"
    /\ LET started == [fan EXCEPT !.attempted = @ \cup {Member}]
       IN \/ fan' = [started EXCEPT !.created = @ \cup {Member},
                                    !.step = "tokens"]
          \/ fan' = MemberFails(started)
    /\ UNCHANGED <<alertVars, bulkVars, restVars>>

\* lines 190-195, 217-221: the member's user document is read; without push
\* tokens the push is skipped
ReadPushTokens ==
    /\ fan.pc = "loop" /\ fan.idx <= Len(fan.membersToNotify)
    /\ fan.step = "tokens"
    /\ \/ \E hasTokens \in BOOLEAN :
              LET got == [fan EXCEPT !.read = @ \cup {Member}]
              IN fan' = IF hasTokens THEN [got EXCEPT !.step = "push"]
                        ELSE NextMember(got)
       \/ fan' = MemberFails(fan)
    /\ UNCHANGED <<alertVars, bulkVars, restVars>>

\* lines 196-216: the tokens are mapped and sendBulkPushNotifications is
\* awaited; it catches its own errors, the mapping of a malformed pushTokens
\* value throws
SendPush ==
    /\ fan.pc = "loop" /\ fan.idx <= Len(fan.membersToNotify)
    /\ fan.step = "push"
    /\ \/ fan' = NextMember([fan EXCEPT !.pushed = @ \cup {Member}])
       \/ fan' = MemberFails(fan)
    /\ UNCHANGED <<alertVars, bulkVars, restVars>>

\* lines 231-233
FanFinish ==
    /\ fan.pc = "loop" /\ fan.idx > Len(fan.membersToNotify)
    /\ fan' = [fan EXCEPT !.pc = "done"]
    /\ UNCHANGED <<alertVars, bulkVars, restVars>>

FanNext ==
    \/ FanStart
    \/ GetGroceryList
    \/ GetAddedByUser
    \/ OuterCatch
    \/ CreateNotification
    \/ ReadPushTokens
    \/ SendPush
    \/ FanFinish

(***************************************************************************)
(* sendBulkPushNotifications ("bulk") and the same loop in                 *)
(* testPushNotification ("test").                                          *)
(***************************************************************************)
\* longest pushTokens array
MaxTokens == 4
\* messages per chunk of expo.chunkPushNotifications (100 in the SDK)
ChunkSize == 2

ValidTokens == {"ExponentPushToken[a]", "ExponentPushToken[b]"}

PushTokens == ValidTokens \cup {"not-a-token"}

\* Expo.isExpoPushToken(pushToken)
IsExpoPushToken(pushToken) == pushToken \in ValidTokens

\* variant: a message is built for every token
MessagesForAll(pushTokens) == pushTokens

RECURSIVE MessagesFor(_)
\* for (const pushToken of pushTokens) { if (!Expo.isExpoPushToken(pushToken))
\* continue; messages.push({to: pushToken, ...}) }: messages by their `to`
MessagesFor(pushTokens) ==
    IF pushTokens = <<>> THEN <<>>
    ELSE (IF IsExpoPushToken(Head(pushTokens)) THEN <<Head(pushTokens)>> ELSE <<>>)
         \o MessagesFor(Tail(pushTokens))

\* the chunk of expo.chunkPushNotifications(messages) that follows the first
\* done messages
NextChunk(messages, done) ==
    SubSeq(messages, done + 1,
           IF done + ChunkSize < Len(messages) THEN done + ChunkSize ELSE Len(messages))

\* messages: the `to` of the messages built; handled: the messages whose
\* chunk has been through the loop; provider: the chunks the push service
\* accepted; tickets: the tickets received, by the token they are for;
\* failedChunks: the chunks whose send rejected; result: the returned tickets
IdlePush == [fn |-> "off", pc |-> "off", pushTokens |-> <<>>, messages |-> <<>>,
             handled |-> 0, provider |-> <<>>, tickets |-> <<>>,
             failedChunks |-> 0, result |-> <<>>]

PushOff == push = IdlePush

PushInit ==
    \E fn \in {"bulk", "test"},
       pushTokens \in UNION {[1..n -> PushTokens] : n \in 0..MaxTokens} :
        push = [IdlePush EXCEPT !.fn = fn, !.pc = "start", !.pushTokens = pushTokens]

\* part_004 lines 124-159 (testPushNotification lines 38-86): the messages are
\* built. Without a valid token sendBulkPushNotifications returns [], and
\* testPushNotification throws invalid-argument.
BuildMessages ==
    /\ push.pc = "start"
    /\ LET messages == MessagesFor(push.pushTokens)
       IN push' = [push EXCEPT !.messages = messages,
                               !.pc = IF messages # <<>> THEN "send"
                                      ELSE IF push.fn = "bulk" THEN "done"
                                      ELSE "threw"]
    /\ UNCHANGED <<alertVars, bulkVars, fanVars, val, leave, credit, moreVars>>

\* part_004 lines 166-173 (testPushNotification lines 93-102): a chunk is sent
\* and its tickets are collected.
SendChunk ==
    /\ push.pc = "send" /\ push.handled < Len(push.messages)
    /\ LET chunk == NextChunk(push.messages, push.handled)
       IN push' = [push EXCEPT !.handled = @ + Len(chunk),
                               !.provider = Append(@, chunk),
                               !.tickets = @ \o chunk]
    /\ UNCHANGED <<alertVars, bulkVars, fanVars, val, leave, credit, moreVars>>

\* part_004 lines 170-172 (testPushNotification lines 98-101): the send of a
\* chunk rejects; sendBulkPushNotifications logs it and goes on with the next
\* chunk, testPushNotification rethrows.
SendChunkFails ==
    /\ push.pc = "send" /\ push.handled < Len(push.messages)
    /\ LET chunk == NextChunk(push.messages, push.handled)
       IN push' = IF push.fn = "bulk"
                  THEN [push EXCEPT !.handled = @ + Len(chunk),
                                    !.failedChunks = @ + 1]
                  ELSE [push EXCEPT !.pc = "threw", !.failedChunks = @ + 1]
    /\ UNCHANGED <<alertVars, bulkVars, fanVars, val, leave, credit, moreVars>>

\* part_004 lines 175-180 (testPushNotification lines 104-165): the tickets
\* are returned.
ReturnTickets ==
    /\ push.pc = "send" /\ push.handled = Len(push.messages)
    /\ push' = [push EXCEPT !.pc = "done", !.result = push.tickets]
    /\ UNCHANGED <<alertVars, bulkVars, fanVars, val, leave, credit, moreVars>>

\* part_004 lines 181-184 (testPushNotification lines 166-177): the SDK client
\* cannot be created; sendBulkPushNotifications returns [], testPushNotification
\* throws.
PushOuterCatch ==
    /\ push.pc = "start"
    /\ push' = [push EXCEPT !.pc = IF push.fn = "bulk" THEN "done" ELSE "threw"]
    /\ UNCHANGED <<alertVars, bulkVars, fanVars, val, leave, credit, moreVars>>

PushNext ==
    \/ BuildMessages
    \/ SendChunk
    \/ SendChunkFails
    \/ ReturnTickets
    \/ PushOuterCatch

(***************************************************************************)
(* The AI-output validators validateReceiptItems ("receipt") and           *)
(* validatePriceTagResult ("priceTag"). A JavaScript value is a record     *)
(* with its typeof in t; a string is the sequence of its characters.       *)
(***************************************************************************)
\* longest array the model returns
MaxItems == 2

Str(chars) == [t |-> "string", s |-> chars]

\* kind is "finite", "NaN", "Infinity" or "-Infinity"
Num(kind, n) == [t |-> "number", kind |-> kind, n |-> n]

Undefined == [t |-> "undefined"]

Null == [t |-> "null"]

Obj(i, p) == [t |-> "object", i |-> i, p |-> p]

Arr(items) == [t |-> "array", items |-> items]

Unknown == Str(<<"u", "n", "k", "n", "o", "w", "n">>)

ZeroPrice == Num("finite", 0)

NameValues ==
    {Str(<<>>), Str(<<" ">>), Str(<<"a">>), Str(<<" ", "a", " ">>),
     Str(<<"a", " ", "b">>), Num("finite", 5), Undefined}

PriceValues ==
    {Num("finite", 0 - 1), ZeroPrice, Num("finite", 2), Num("NaN", 0),
     Num("Infinity", 0), Str(<<"2">>), Undefined}

ItemValues ==
    {Null, Str(<<"a">>)} \cup {Obj(i, p) : i \in NameValues, p \in PriceValues}

ArrayValues == {Arr(items) : items \in UNION {[1..n -> ItemValues] : n \in 0..MaxItems}}

RECURSIVE TrimStart(_)
\* the string without its leading white space
TrimStart(chars) ==
    IF chars # <<>> /\ Head(chars) = " " THEN TrimStart(Tail(chars)) ELSE chars

RECURSIVE TrimEnd(_)
\* the string without its trailing white space
TrimEnd(chars) ==
    IF chars # <<>> /\ chars[Len(chars)] = " "
    THEN TrimEnd(SubSeq(chars, 1, Len(chars) - 1))
    ELSE chars

\* variant: only the leading white space is removed
TrimStartOnly(chars) == TrimStart(chars)

\* i.trim()
Trim(chars) == TrimEnd(TrimStart(chars))

\* typeof i === "string" && i.trim() !== ""
HasValidName(i) == i.t = "string" /\ Trim(i.s) # <<>>

\* typeof p === "number" && p > 0 && isFinite(p)
HasValidReceiptPrice(p) == p.t = "number" /\ p.kind = "finite" /\ p.n > 0

\* typeof p === "number" && isFinite(p) && p >= 0
HasValidTagPrice(p) == p.t = "number" /\ p.kind = "finite" /\ p.n >= 0

\* typeof item !== "object" || item === null  (typeof of an array is "object")
IsNoObject(item) == item.t \notin {"object", "array"}

\* const { i, p } = item: a property the value lacks is undefined
Prop(item, name) ==
    IF item.t = "object" THEN (IF name = "i" THEN item.i ELSE item.p)
    ELSE Undefined

\* the name of the returned item
ItemName(item) ==
    IF HasValidName(Prop(item, "i")) THEN Str(Trim(Prop(item, "i").s)) ELSE Unknown

\* validateReceiptItems, the callback of data.map
ReceiptItem(item) ==
    IF IsNoObject(item) THEN [i |-> Unknown, p |-> ZeroPrice]
    ELSE [i |-> ItemName(item),
          p |-> IF HasValidReceiptPrice(Prop(item, "p")) THEN Prop(item, "p")
                ELSE ZeroPrice]

\* validateReceiptItems for an array
validateReceiptItems(data) == [k \in DOMAIN data.items |-> ReceiptItem(data.items[k])]

\* validatePriceTagResult
validatePriceTagResult(data) ==
    IF data.t = "array" /\ data.items = <<>> THEN [p |-> ZeroPrice, i |-> Unknown]
    ELSE LET candidate == IF data.t = "array" THEN data.items[1] ELSE data
         IN IF IsNoObject(candidate) THEN [p |-> ZeroPrice, i |-> Unknown]
            ELSE [p |-> IF HasValidTagPrice(Prop(candidate, "p"))
                        THEN Prop(candidate, "p") ELSE ZeroPrice,
                  i |-> ItemName(candidate)]

IdleVal == [fn |-> "off", pc |-> "off", data |-> Undefined, items |-> <<>>,
            item |-> [p |-> ZeroPrice, i |-> Unknown]]

ValOff == val = IdleVal

ValInit ==
    \/ \E data \in ArrayValues \cup ItemValues \cup {Undefined} :
           val = [IdleVal EXCEPT !.fn = "priceTag", !.pc = "start", !.data = data]
    \/ \E data \in ArrayValues \cup {Null, Undefined, Obj(Str(<<"a">>), ZeroPrice)} :
           val = [IdleVal EXCEPT !.fn = "receipt", !.pc = "start", !.data = data]

\* extract-receipt lines 10-49; anything but an array throws
ValidateReceipt ==
    /\ val.fn = "receipt" /\ val.pc = "start"
    /\ val' = IF val.data.t # "array" THEN [val EXCEPT !.pc = "threw"]
              ELSE [val EXCEPT !.pc = "done", !.items = validateReceiptItems(val.data)]
    /\ UNCHANGED <<alertVars, bulkVars, fanVars, push, leave, credit, moreVars>>

\* price-tag validator lines 49-91
ValidatePriceTag ==
    /\ val.fn = "priceTag" /\ val.pc = "start"
    /\ val' = [val EXCEPT !.pc = "done", !.item = validatePriceTagResult(val.data)]
    /\ UNCHANGED <<alertVars, bulkVars, fanVars, push, leave, credit, moreVars>>

ValNext ==
    \/ ValidateReceipt
    \/ ValidatePriceTag

(***************************************************************************)
(* leaveGroceryList: one call by `caller` on one grocery list.             *)
(***************************************************************************)
\* most grocery items the caller owns in the list
MaxLeaveItems == 2

LeaveUsers == {"u1", "u2", "u3"}

\* the codes of HttpsError
HttpsErrors ==
    {"unauthenticated", "invalid-argument", "not-found", "permission-denied",
     "internal"}

\* the outer catch: an HttpsError is re-thrown, anything else becomes "internal"
LeaveOuterCatch(error) == IF error \in HttpsErrors THEN error ELSE "internal"

IdleLeave == [pc |-> "off", auth |-> FALSE, idOk |-> FALSE, exists |-> FALSE,
              caller |-> "u1", owner |-> "u1", members |-> {},
              items |-> <<>>, snapshot |-> {}, notifications |-> 0,
              removed |-> FALSE, result |-> "none"]

LeaveOff == leave = IdleLeave

LeaveInit ==
    \E auth \in BOOLEAN, idOk \in BOOLEAN, exists \in BOOLEAN,
       caller \in LeaveUsers, owner \in LeaveUsers,
       members \in SUBSET LeaveUsers, n \in 0..MaxLeaveItems :
        leave = [IdleLeave EXCEPT !.pc = "start", !.auth = auth, !.idOk = idOk,
                     !.exists = exists, !.caller = caller, !.owner = owner,
                     !.members = IF exists THEN members ELSE {},
                     !.items = [k \in 1..n |-> "list"]]

\* the call ends with `result`
LeaveEnds(result) == leave' = [leave EXCEPT !.pc = "done", !.result = result]

\* lines 17-34: authentication and argument checks
LeaveStart ==
    /\ leave.pc = "start"
    /\ IF ~leave.auth THEN LeaveEnds("unauthenticated")
       ELSE IF ~leave.idOk THEN LeaveEnds("invalid-argument")
       ELSE leave' = [leave EXCEPT !.pc = "getList"]
    /\ UNCHANGED <<alertVars, bulkVars, fanVars, push, val, credit, moreVars>>

\* variant: the owner is not told apart from the other members
LeaveGetListNoOwnerCheck ==
    /\ leave.pc = "getList"
    /\ IF ~leave.exists THEN LeaveEnds(LeaveOuterCatch("not-found"))
       ELSE IF leave.caller \notin leave.members
            THEN LeaveEnds(LeaveOuterCatch("permission-denied"))
       ELSE leave' = [leave EXCEPT !.pc = "update"]
    /\ UNCHANGED <<alertVars, bulkVars, fanVars, push, val, credit, moreVars>>

\* lines 42-71: read the list, refuse a missing list, the owner, a non-member
LeaveGetList ==
    /\ leave.pc = "getList"
    /\ IF ~leave.exists THEN LeaveEnds(LeaveOuterCatch("not-found"))
       ELSE IF leave.owner = leave.caller
            THEN LeaveEnds(LeaveOuterCatch("permission-denied"))
       ELSE IF leave.caller \notin leave.members
            THEN LeaveEnds(LeaveOuterCatch("permission-denied"))
       ELSE leave' = [leave EXCEPT !.pc = "update"]
    /\ UNCHANGED <<alertVars, bulkVars, fanVars, push, val, credit, moreVars>>

\* line 43 rejects
LeaveGetListFails ==
    /\ leave.pc = "getList"
    /\ LeaveEnds(LeaveOuterCatch("unavailable"))
    /\ UNCHANGED <<alertVars, bulkVars, fanVars, push, val, credit, moreVars>>

\* lines 74-77: arrayRemove(userId)
LeaveUpdateMembers ==
    /\ leave.pc = "update"
    /\ leave' = [leave EXCEPT !.pc = "queryItems",
                     !.members = leave.members \ {leave.caller},
                     !.removed = TRUE]
    /\ UNCHANGED <<alertVars, bulkVars, fanVars, push, val, credit, moreVars>>

\* line 74 rejects
LeaveUpdateFails ==
    /\ leave.pc = "update"
    /\ LeaveEnds(LeaveOuterCatch("unavailable"))
    /\ UNCHANGED <<alertVars, bulkVars, fanVars, push, val, credit, moreVars>>

\* lines 86-100: the caller's items of the list; nothing to commit when none
LeaveQueryItems ==
    /\ leave.pc = "queryItems"
    /\ LET snapshot == {k \in DOMAIN leave.items : leave.items[k] = "list"}
       IN leave' = [leave EXCEPT !.snapshot = snapshot,
                        !.pc = IF Cardinality(snapshot) > 0 THEN "commit"
                               ELSE "getUser"]
    /\ UNCHANGED <<alertVars, bulkVars, fanVars, push, val, credit, moreVars>>

\* line 86 rejects: caught at line 107
LeaveQueryItemsFails ==
    /\ leave.pc = "queryItems"
    /\ leave' = [leave EXCEPT !.pc = "getUser"]
    /\ UNCHANGED <<alertVars, bulkVars, fanVars, push, val, credit, moreVars>>

\* line 101: every item of the snapshot gets GroceryListId null
LeaveCommit ==
    /\ leave.pc = "commit"
    /\ leave' = [leave EXCEPT !.pc = "getUser",
                     !.items = [k \in DOMAIN leave.items |->
                                   IF k \in leave.snapshot THEN "null"
                                   ELSE leave.items[k]]]
    /\ UNCHANGED <<alertVars, bulkVars, fanVars, push, val, credit, moreVars>>

\* line 101 rejects: caught at line 107
LeaveCommitFails ==
    /\ leave.pc = "commit"
    /\ leave' = [leave EXCEPT !.pc = "getUser"]
    /\ UNCHANGED <<alertVars, bulkVars, fanVars, push, val, credit, moreVars>>

\* line 113: the caller's profile
LeaveGetUser ==
    /\ leave.pc = "getUser"
    /\ leave' = [leave EXCEPT !.pc = "notify"]
    /\ UNCHANGED <<alertVars, bulkVars, fanVars, push, val, credit, moreVars>>

\* line 113 rejects: outside the inner try blocks, so the outer catch gets it
LeaveGetUserFails ==
    /\ leave.pc = "getUser"
    /\ LeaveEnds(LeaveOuterCatch("unavailable"))
    /\ UNCHANGED <<alertVars, bulkVars, fanVars, push, val, credit, moreVars>>

\* lines 138-148: the owner's notification, then success
LeaveNotify ==
    /\ leave.pc = "notify"
    /\ leave' = [leave EXCEPT !.pc = "done", !.result = "success",
                     !.notifications = leave.notifications + 1]
    /\ UNCHANGED <<alertVars, bulkVars, fanVars, push, val, credit, moreVars>>

\* line 138 rejects: caught at line 140, then success
LeaveNotifyFails ==
    /\ leave.pc = "notify"
    /\ LeaveEnds("success")
    /\ UNCHANGED <<alertVars, bulkVars, fanVars, push, val, credit, moreVars>>

LeaveNext ==
    \/ LeaveStart
    \/ LeaveGetList
    \/ LeaveGetListFails
    \/ LeaveUpdateMembers
    \/ LeaveUpdateFails
    \/ LeaveQueryItems
    \/ LeaveQueryItemsFails
    \/ LeaveCommit
    \/ LeaveCommitFails
    \/ LeaveGetUser
    \/ LeaveGetUserFails
    \/ LeaveNotify
    \/ LeaveNotifyFails

(***************************************************************************)
(* addCreditsToUser: one HTTP request against the users collection, which  *)
(* holds one user document, "u1".                                          *)
(***************************************************************************)
\* largest credit amount of a request
MaxCredits == 2

Methods == {"OPTIONS", "GET", "POST"}

ExistingUser == <<"u", "1">>

IdValues == {Undefined, Str(<<>>), Num("finite", 5), Str(ExistingUser), Str(<<"u", "9">>)}

CreditValues ==
    {Undefined, Num("NaN", 0), Str(<<"5">>)}
        \cup {Num("finite", n) : n \in (0 - 1)..MaxCredits}

ReasonValues == {Undefined, Str(<<>>), Num("finite", 1), Str(<<"r">>)}

\* the stored ai.credits of the user document; 0 also stands for a missing field
Balances == {0, 3}

\* !v
Falsy(v) ==
    \/ v.t \in {"undefined", "null"}
    \/ v.t = "string" /\ v.s = <<>>
    \/ v.t = "number" /\ (v.kind = "NaN" \/ (v.kind = "finite" /\ v.n = 0))

\* !id || typeof id !== "string"
HasNoId(id) == Falsy(id) \/ id.t # "string"

\* variant: a negative amount passes
HasNoCreditsUnsigned(credits) == Falsy(credits) \/ credits.t # "number"

\* !credits || typeof credits !== "number" || credits <= 0
HasNoCredits(credits) ==
    \/ Falsy(credits)
    \/ credits.t # "number"
    \/ credits.kind = "-Infinity"
    \/ credits.kind = "finite" /\ credits.n <= 0

\* !reason || typeof reason !== "string"
HasNoReason(reason) == Falsy(reason) \/ reason.t # "string"

IdleCredit == [pc |-> "off", method |-> "POST", id |-> Undefined,
               credits |-> Undefined, reason |-> Undefined, balance |-> 0,
               before |-> 0, reads |-> 0, writes |-> 0, failed |-> FALSE,
               status |-> 0]

CreditOff == credit = IdleCredit

CreditInit ==
    \E method \in Methods, id \in IdValues, credits \in CreditValues,
       reason \in ReasonValues, balance \in Balances :
        credit = [IdleCredit EXCEPT !.pc = "start", !.method = method, !.id = id,
                      !.credits = credits, !.reason = reason,
                      !.balance = balance, !.before = balance]

\* the response is sent with `status`
Respond(status) == credit' = [credit EXCEPT !.pc = "done", !.status = status]

\* lines 7-37: preflight, method and body checks
CreditValidate ==
    /\ credit.pc = "start"
    /\ IF credit.method = "OPTIONS" THEN Respond(204)
       ELSE IF credit.method # "POST" THEN Respond(405)
       ELSE IF HasNoId(credit.id) THEN Respond(400)
       ELSE IF HasNoCredits(credit.credits) THEN Respond(400)
       ELSE IF HasNoReason(credit.reason) THEN Respond(400)
       ELSE credit' = [credit EXCEPT !.pc = "get"]
    /\ UNCHANGED <<alertVars, bulkVars, fanVars, push, val, leave, moreVars>>

\* lines 40-46: read users/{id}
CreditGetUser ==
    /\ credit.pc = "get"
    /\ credit' = IF credit.id.s # ExistingUser
                 THEN [credit EXCEPT !.pc = "done", !.status = 404,
                           !.reads = credit.reads + 1]
                 ELSE [credit EXCEPT !.pc = "update", !.reads = credit.reads + 1]
    /\ UNCHANGED <<alertVars, bulkVars, fanVars, push, val, leave, moreVars>>

\* line 41 rejects: the catch at lines 73-79 answers 500
CreditGetFails ==
    /\ credit.pc = "get"
    /\ credit' = [credit EXCEPT !.pc = "done", !.status = 500, !.failed = TRUE]
    /\ UNCHANGED <<alertVars, bulkVars, fanVars, push, val, leave, moreVars>>

\* lines 48-72: ai.credits = currentCredits + credits
CreditUpdate ==
    /\ credit.pc = "update"
    /\ credit' = [credit EXCEPT !.pc = "done", !.status = 200,
                      !.balance = credit.balance + credit.credits.n,
                      !.writes = credit.writes + 1]
    /\ UNCHANGED <<alertVars, bulkVars, fanVars, push, val, leave, moreVars>>

\* line 53 rejects: the catch at lines 73-79 answers 500
CreditUpdateFails ==
    /\ credit.pc = "update"
    /\ credit' = [credit EXCEPT !.pc = "done", !.status = 500, !.failed = TRUE]
    /\ UNCHANGED <<alertVars, bulkVars, fanVars, push, val, leave, moreVars>>

CreditNext ==
    \/ CreditValidate
    \/ CreditGetUser
    \/ CreditGetFails
    \/ CreditUpdate
    \/ CreditUpdateFails

(***************************************************************************)
(* addCreditsToUser: well-formed POST requests for the one existing user,  *)
(* which may overlap. Each request reads the user document and then        *)
(* updates it.                                                             *)
(***************************************************************************)
\* most requests in flight
MaxCalls == 2

Calls == 1..MaxCalls

NoCall == [pc |-> "none", credits |-> 0, currentCredits |-> 0]

IdleAdds == [balance |-> 0, before |-> 0, calls |-> [c \in Calls |-> NoCall]]

AddsOff == adds = IdleAdds

AddsInit ==
    \E balance \in Balances, credits \in [Calls -> 0..MaxCredits] :
        adds = [balance |-> balance, before |-> balance,
                calls |-> [c \in Calls |->
                              IF credits[c] = 0 THEN NoCall
                              ELSE [NoCall EXCEPT !.pc = "get",
                                                  !.credits = credits[c]]]]

\* lines 40-49: const currentCredits = userData?.ai?.credits || 0
AddsGetUser(c) ==
    /\ adds.calls[c].pc = "get"
    /\ adds' = [adds EXCEPT !.calls[c].pc = "update",
                            !.calls[c].currentCredits = adds.balance]
    /\ UNCHANGED <<alertVars, bulkVars, fanVars, push, val, leave, credit, test>>

\* "ai.credits": currentCredits + credits
NewBalance(balance, currentCredits, credits) == currentCredits + credits

\* lines 53-72: the update and the 200 response
AddsUpdate(c) ==
    /\ adds.calls[c].pc = "update"
    /\ adds' = [adds EXCEPT !.calls[c].pc = "done",
                            !.balance = NewBalance(adds.balance,
                                                   adds.calls[c].currentCredits,
                                                   adds.calls[c].credits)]
    /\ UNCHANGED <<alertVars, bulkVars, fanVars, push, val, leave, credit, test>>

\* line 41 or line 53 rejects: the catch at lines 73-79 answers 500
AddsFails(c) ==
    /\ adds.calls[c].pc \in {"get", "update"}
    /\ adds' = [adds EXCEPT !.calls[c].pc = "failed"]
    /\ UNCHANGED <<alertVars, bulkVars, fanVars, push, val, leave, credit, test>>

AddsNext ==
    \E c \in Calls :
        \/ AddsGetUser(c)
        \/ AddsUpdate(c)
        \/ AddsFails(c)

(***************************************************************************)
(* testBudgetAlert: an HTTP request that sends a test alert email.         *)
(***************************************************************************)
\* landedAtSend: a write of the AlertRecord of the request's user and month
\* had landed when the test email was sent
IdleTest == [pc |-> "off", userId |-> NoUser, budget |-> 0, currentDate |-> 0,
             totalSpent |-> 0, percentageSpent |-> NoPercentage,
             sent |-> FALSE, landedAtSend |-> FALSE, status |-> 0]

\* users/{userId} documents that carry the is_budget_set field
BudgetSetDoc(isSet, budget) ==
    [exists |-> TRUE,
     data |-> [name |-> "n", budget |-> budget, is_budget_set |-> isSet]]

TestUserSetups ==
    {[doc |-> [exists |-> FALSE, data |-> [name |-> "n"]], email |-> TRUE],
     [doc |-> BudgetDoc(4), email |-> TRUE],
     [doc |-> BudgetSetDoc(FALSE, 4), email |-> TRUE],
     [doc |-> BudgetSetDoc(TRUE, 0), email |-> TRUE],
     [doc |-> BudgetSetDoc(TRUE, 8), email |-> FALSE]}

\* users/u1 has its budget of 4 set and an email
TestInit ==
    /\ clock = MonthsPerYear - 1
    /\ \E other \in TestUserSetups :
          /\ users = [u \in Users |->
                         IF u = "u1" THEN BudgetSetDoc(TRUE, 4) ELSE other.doc]
          /\ authEmail = [u \in Users |-> IF u = "u1" THEN TRUE ELSE other.email]
    /\ historyItems = <<>>
    /\ budgetAlerts = {}
    /\ effects = <<>>
    /\ inv = [i \in 1..MaxInv |-> IdleInv]
    /\ test = [IdleTest EXCEPT !.pc = "idle"]

\* !userData?.is_budget_set || !userData?.budget
HasNoBudgetSet(userData) ==
    \/ ~("is_budget_set" \in DOMAIN userData)
    \/ ~userData.is_budget_set
    \/ HasNoBudget(userData)

\* variant: the test alert is sent from the alert threshold on
AfterTestQueryAtThreshold(percentageSpent) ==
    IF CrossedThreshold(percentageSpent) THEN "send" ELSE "respond"

\* "Send test alert regardless of threshold"
AfterTestQuery(percentageSpent) == "send"

TestResponds(status) == test' = [test EXCEPT !.pc = "responded", !.status = status]

\* Lines 9-41: the request arrives; the userId check, the read of
\* users/{userId} and the budget check.
TestGetUserDoc ==
    /\ test.pc = "idle"
    /\ \E userId \in Users \cup {NoUser} :
          IF userId = NoUser THEN TestResponds(400)
          ELSE LET userDoc == GetDoc(users, userId) IN
               IF ~userDoc.exists THEN TestResponds(404)
               ELSE IF HasNoBudgetSet(userDoc.data) THEN TestResponds(400)
               ELSE test' = [test EXCEPT !.pc = "getAuth", !.userId = userId,
                                         !.budget = userDoc.data.budget]
    /\ UNCHANGED <<alertVars, bulkVars, fanVars, push, val, leave, credit, adds>>

\* Lines 44-64: the auth lookup, the email check and the clock reading.
TestGetAuthUser ==
    /\ test.pc = "getAuth"
    /\ IF ~authEmail[test.userId] THEN TestResponds(400)
       ELSE test' = [test EXCEPT !.pc = "query", !.currentDate = clock]
    /\ UNCHANGED <<alertVars, bulkVars, fanVars, push, val, leave, credit, adds>>

\* Lines 66-81: the month's history query, the sum and the percentage.
TestQueryHistory ==
    /\ test.pc = "query"
    /\ LET totalSpent == SumAmounts(historyItems, test.userId, test.currentDate)
           percentageSpent == PercentageSpent(totalSpent, test.budget)
       IN test' = [test EXCEPT !.totalSpent = totalSpent,
                               !.percentageSpent = percentageSpent,
                               !.pc = AfterTestQuery(percentageSpent)]
    /\ UNCHANGED <<alertVars, bulkVars, fanVars, push, val, leave, credit, adds>>

\* Line 89: await sendBudgetAlertEmail(userRecord.email, budgetAlertData).
TestSendBudgetAlertEmail ==
    /\ test.pc = "send"
    /\ test' = [test EXCEPT !.pc = "respond", !.sent = TRUE,
                            !.landedAtSend =
                                Landed(AlertDocId(test.userId, test.currentDate))]
    /\ UNCHANGED <<alertVars, bulkVars, fanVars, push, val, leave, credit, adds>>

\* Lines 91-102: response.status(200).json(...).
TestSucceeds ==
    /\ test.pc = "respond"
    /\ TestResponds(200)
    /\ UNCHANGED <<alertVars, bulkVars, fanVars, push, val, leave, credit, adds>>

\* Lines 103-109: an awaited call rejects; the catch responds with 500.
TestThrows ==
    /\ test.pc \in {"idle", "getAuth", "query", "send"}
    /\ TestResponds(500)
    /\ UNCHANGED <<alertVars, bulkVars, fanVars, push, val, leave, credit, adds>>

TestNext ==
    \/ TestGetUserDoc
    \/ TestGetAuthUser
    \/ TestQueryHistory
    \/ TestSendBudgetAlertEmail
    \/ TestSucceeds
    \/ TestThrows

TestOff == test = IdleTest

MoreOff == AddsOff /\ TestOff

RestOff == PushOff /\ ValOff /\ LeaveOff /\ CreditOff /\ MoreOff

AlertOff ==
    /\ clock = MonthsPerYear - 1
    /\ users = [u \in Users |-> BudgetDoc(4)]
    /\ authEmail = [u \in Users |-> TRUE]
    /\ historyItems = <<>>
    /\ budgetAlerts = {}
    /\ effects = <<>>
    /\ inv = [i \in 1..MaxInv |-> IdleInv]

InitBulk == BulkInit /\ AlertOff /\ FanOff /\ RestOff

SpecBulk == InitBulk /\ [][BulkNext]_vars

InitFanout == FanInit /\ AlertOff /\ BulkOff /\ RestOff

SpecFanout == InitFanout /\ [][FanNext]_vars

InitPush ==
    PushInit /\ AlertOff /\ BulkOff /\ FanOff /\ ValOff /\ LeaveOff /\ CreditOff
        /\ MoreOff

SpecPush == InitPush /\ [][PushNext]_vars

InitVal ==
    ValInit /\ AlertOff /\ BulkOff /\ FanOff /\ PushOff /\ LeaveOff /\ CreditOff
        /\ MoreOff

SpecVal == InitVal /\ [][ValNext]_vars

InitLeave ==
    LeaveInit /\ AlertOff /\ BulkOff /\ FanOff /\ PushOff /\ ValOff /\ CreditOff
        /\ MoreOff

SpecLeave == InitLeave /\ [][LeaveNext]_vars

InitCredit ==
    CreditInit /\ AlertOff /\ BulkOff /\ FanOff /\ PushOff /\ ValOff /\ LeaveOff
        /\ MoreOff

SpecCredit == InitCredit /\ [][CreditNext]_vars

(***************************************************************************)
(* onUserDeleted and leaveGroceryList with more matching documents than    *)
(* the ceiling of a write batch.                                           *)
(***************************************************************************)
\* numbers of matching documents: none, one, one more than the ceiling
LargeSizes == {0, 1, batchSize + 1}

LargeDelRuns ==
    \E n \in [Collections -> LargeSizes] :
        del = [IdleDel EXCEPT !.pc = "deleteUser", !.userDoc = TRUE,
                              !.owned = [c \in Collections |-> 1..n[c]]]

LargeLeaveRuns ==
    \E n \in LargeSizes, caller \in {"u2", "u3"} :
        leave = [IdleLeave EXCEPT !.pc = "start", !.auth = TRUE, !.idOk = TRUE,
                     !.exists = TRUE, !.caller = caller, !.owner = "u1",
                     !.members = {"u2", "u3"},
                     !.items = [k \in 1..n |-> "list"]]

InitLarge ==
    /\ \/ LargeDelRuns /\ leave = IdleLeave
       \/ LargeLeaveRuns /\ del = IdleDel
    /\ bulk = IdleBulk
    /\ AlertOff /\ FanOff /\ PushOff /\ ValOff /\ CreditOff /\ MoreOff

LargeNext ==
    \/ DeleteUserDoc
    \/ DeleteOwned("grocery-items", "queryHistory")
    \/ QueryOwnedHistory
    \/ DeleteOwned("todos", "grocery-lists")
    \/ DeleteOwned("grocery-lists", "setDeleted")
    \/ SetDeletedUser
    \/ DeleteOwnedHistory
    \/ DeleteOwned("recent-search-items", "done")
    \/ DelThrows
    \/ LeaveNext

SpecLarge == InitLarge /\ [][LargeNext]_vars

InitAdds ==
    /\ AddsInit /\ TestOff
    /\ AlertOff /\ BulkOff /\ FanOff /\ PushOff /\ ValOff /\ LeaveOff /\ CreditOff

SpecAdds == InitAdds /\ [][AddsNext]_vars

(***************************************************************************)
(* onUserDeleted with re-runs after a failure.                             *)
(***************************************************************************)
InitRetry == DelRuns /\ bulk = IdleBulk /\ AlertOff /\ FanOff /\ RestOff

RetryNext ==
    \/ DeleteUserDoc
    \/ DeleteOwned("grocery-items", "queryHistory")
    \/ QueryOwnedHistory
    \/ DeleteOwned("todos", "grocery-lists")
    \/ DeleteOwned("grocery-lists", "setDeleted")
    \/ SetDeletedUser
    \/ DeleteOwnedHistory
    \/ DeleteOwned("recent-search-items", "done")
    \/ DelThrows
    \/ DelRetry

SpecRetry == InitRetry /\ [][RetryNext]_vars

(***************************************************************************)
(* A testBudgetAlert request next to serialized checkBudgetAlert           *)
(* invocations.                                                            *)
(***************************************************************************)
InitTest == TestInit /\ BulkOff /\ FanOff /\ PushOff /\ ValOff /\ LeaveOff
                     /\ CreditOff /\ AddsOff

\* Invocations overlap: the infrastructure starts a queued one at any time.
AlertNext ==
    \/ CreateHistoryItem
    \/ EmptyEvent
    \/ Tick
    \/ \E i \in 1..MaxInv :
          \/ StartCheck(i, TRUE)
          \/ GetAuthUser(i)
          \/ QueryHistory(i)
          \/ ReadAlertDoc(i)
          \/ SendBudgetAlertEmail(i)
          \/ WriteAlertDoc(i)
          \/ Throw(i)

\* Serialized invocations: one starts only when no other is running.
SerialNext ==
    \/ CreateHistoryItem
    \/ EmptyEvent
    \/ Tick
    \/ \E i \in 1..MaxInv :
          \/ StartCheck(i, NumRunning = 0)
          \/ GetAuthUser(i)
          \/ QueryHistory(i)
          \/ ReadAlertDoc(i)
          \/ SendBudgetAlertEmail(i)
          \/ WriteAlertDoc(i)
          \/ Throw(i)

InitAlert == AlertInit /\ BulkOff /\ FanOff /\ RestOff

SpecAlert == InitAlert /\ [][AlertNext]_vars

SpecSerial == InitAlert /\ [][SerialNext]_vars

\* Both users hold a budget and an email, so that every invocation with a
\* payload can race for an AlertRecord.
InitRace == AlertOff /\ BulkOff /\ FanOff /\ RestOff

SpecRace == InitRace /\ [][AlertNext]_vars

\* A testBudgetAlert request arrives at any time, next to serialized
\* checkBudgetAlert invocations whose awaited calls succeed.
MonitorNext ==
    \/ CreateHistoryItem
    \/ \E i \in 1..MaxInv :
          \/ StartCheck(i, NumRunning = 0)
          \/ GetAuthUser(i)
          \/ QueryHistory(i)
          \/ ReadAlertDoc(i)
          \/ SendBudgetAlertEmail(i)
          \/ WriteAlertDoc(i)

SpecTest == InitTest /\ [][MonitorNext \/ TestNext]_vars

(***************************************************************************)
(* Properties of the budget alert monitor.                                 *)
(***************************************************************************)
Invs == 1..MaxInv

\* invocation i has completed the awaited call op
Did(i, op) == \E k \in DOMAIN inv[i].ops : inv[i].ops[k] = op

\* the positions of the log where invocation i sent an email / wrote a record
EffectsOf(i, kind) ==
    {k \in DOMAIN effects : effects[k].inv = i /\ effects[k].kind = kind}

\* u's users document exists and its budget is missing or 0
BudgetAbsentOrFalsy(u) ==
    /\ users[u].exists
    /\ \/ ~("budget" \in DOMAIN users[u].data)
       \/ users[u].data.budget = 0

\* C1: under serialized invocations, at most one AlertRecord is created and at
\* most one alert email is sent for a (userId, year, month).
C1_AtMostOneRecordAndEmail ==
    /\ \A k1, k2 \in DOMAIN effects :
          (effects[k1].kind = effects[k2].kind /\ effects[k1].id = effects[k2].id)
              => k1 = k2
    /\ \A d1, d2 \in budgetAlerts : d1.id = d2.id => d1 = d2

\* C2: an invocation that reads the clock when the AlertRecord of its
\* (userId, year, month) already exists sends no email and writes nothing.
C2_RecheckIsNoOp ==
    \A i \in Invs :
        inv[i].landedAtClock =>
            /\ EffectsOf(i, "email") = {}
            /\ EffectsOf(i, "write") = {}
            /\ inv[i].pc \notin {"send", "write"}

\* an invocation re-checked a month that had its AlertRecord, with the spend
\* at or above the threshold, and returned
C2_Witness ==
    \E i \in Invs :
        /\ inv[i].landedAtClock
        /\ inv[i].pc = "done"
        /\ Did(i, "readAlert")
        /\ 2 * inv[i].totalSpent >= inv[i].monthlyBudget

\* C3: an invocation whose month-to-date sum is below half of the budget sends
\* no email and creates no AlertRecord, and no AlertRecord in the store holds a
\* spend below half of its budget.
C3_NoAlertBelowThreshold ==
    /\ \A i \in Invs :
          (Did(i, "query") /\ 2 * inv[i].totalSpent < inv[i].monthlyBudget) =>
              /\ EffectsOf(i, "email") = {}
              /\ EffectsOf(i, "write") = {}
              /\ inv[i].pc = "done"
              /\ ~Did(i, "readAlert")
    /\ \A d \in budgetAlerts : 2 * d.data.amountSpent >= d.data.monthlyBudget

\* an invocation summed a positive spend below half of the budget and returned
C3_Witness ==
    \E i \in Invs :
        /\ Did(i, "query")
        /\ inv[i].totalSpent > 0
        /\ 2 * inv[i].totalSpent < inv[i].monthlyBudget
        /\ inv[i].pc = "done"

\* C4: when the user's budget is missing or 0, the invocation performs no
\* awaited call after the read of the users document: no auth lookup, no
\* spending query, no AlertRecord read, no send, no write.
C4_NoBudgetNoAlertLogic ==
    \A i \in Invs :
        (inv[i].userId \in Users /\ BudgetAbsentOrFalsy(inv[i].userId)) =>
            /\ \A k \in DOMAIN inv[i].ops : inv[i].ops[k] = "getUserDoc"
            /\ inv[i].pc \in {"queued", "done", "threw"}
            /\ EffectsOf(i, "email") = {}
            /\ EffectsOf(i, "write") = {}

\* an invocation of a user whose budget is 0 returned after the users read,
\* although the user has spent
C4_Witness ==
    \E i \in Invs :
        /\ inv[i].userId \in Users
        /\ users[inv[i].userId].exists
        /\ "budget" \in DOMAIN users[inv[i].userId].data
        /\ users[inv[i].userId].data.budget = 0
        /\ inv[i].pc = "done"
        /\ inv[i].ops = <<"getUserDoc">>
        /\ \E k \in DOMAIN historyItems :
              /\ historyItems[k].userId = inv[i].userId
              /\ AmountOf(historyItems[k]) > 0

\* C5: every AlertRecord write comes after an email sent by the same
\* invocation for the same id, every AlertRecord in the store has such a
\* write, and an invocation whose send threw writes nothing.
C5_WriteOnlyAfterSend ==
    /\ \A k \in DOMAIN effects :
          effects[k].kind = "write" =>
              \E j \in 1..(k - 1) :
                  /\ effects[j].kind = "email"
                  /\ effects[j].inv = effects[k].inv
                  /\ effects[j].id = effects[k].id
    /\ \A d \in budgetAlerts :
          \E k \in DOMAIN effects : effects[k].kind = "write" /\ effects[k].id = d.id
    /\ \A i \in Invs :
          inv[i].failedAt = "send" =>
              /\ EffectsOf(i, "write") = {}
              /\ EffectsOf(i, "email") = {}
              /\ inv[i].pc = "threw"

\* an AlertRecord is in the store and the send of another invocation threw
C5_Witness ==
    /\ budgetAlerts # {}
    /\ \E i \in Invs : inv[i].failedAt = "send"

Targets == {d \in 1..bulk.size : ~HasCreatedAt(d, bulk.pattern)}

NumTargets == Cardinality(Targets)

CeilDiv(n, m) == (n + m - 1) \div m

BatchLen(k) == Cardinality(bulk.commits[k].docs)

\* the loop index the batch before batch k was committed at
UpToBefore(k) == IF k = 1 THEN 0 ELSE bulk.commits[k - 1].upTo

\* C7: a finished bulk write over N > 500 targets has committed exactly
\* ceil(N / 500) batches, none larger than 500, the last one of N mod 500
\* operations, or of 500 when 500 divides N.
C7_BatchCountAndSizes ==
    (bulk.pc = "done" /\ NumTargets > batchSize) =>
        LET n == NumTargets
            k == Len(bulk.commits)
        IN /\ k = CeilDiv(n, batchSize)
           /\ \A j \in 1..k : BatchLen(j) <= batchSize /\ BatchLen(j) > 0
           /\ BatchLen(k) = IF n % batchSize = 0 THEN batchSize ELSE n % batchSize

\* a run over a multiple of 500 targets, more than 500, has finished
C7_Witness ==
    /\ bulk.pc = "done"
    /\ NumTargets > batchSize
    /\ NumTargets % batchSize = 0

\* C8: a bulk operation without targets commits no batch and changes no
\* document, and when it returns it reports success and zero affected targets;
\* onUserDeleted commits no batch for a collection in which the user owns
\* nothing, and does not fail for it.
C8_EmptyTargetsNoOp ==
    /\ (bulk.script # "off" /\ NumTargets = 0) =>
          /\ bulk.commits = <<>>
          /\ bulk.written = {}
          /\ bulk.pc \in {"start", "loop", "done", "threw"}
          /\ bulk.pc = "threw" => bulk.i = 1 /\ bulk.batchCount = 0
          /\ bulk.pc = "done" => /\ bulk.result.success
                                 /\ bulk.result.updated = 0
                                 /\ bulk.result.total = bulk.size
    /\ \A k \in DOMAIN del.commits : del.commits[k].docs # {}
    /\ del.pc = "done" => \A c \in Collections : del.owned[c] = {}

\* a run over an empty collection, a run over todos that all have createdAt,
\* or an onUserDeleted of a user who owns nothing, has returned
C8_Witness ==
    \/ bulk.pc = "done" /\ bulk.size = 0
    \/ bulk.pc = "done" /\ bulk.size > 0 /\ NumTargets = 0
    \/ del.pc = "done" /\ del.commits = <<>>

\* C9: the batches are committed in enumeration order and each applies all of
\* its operations or none: after k commits the operation has been applied to
\* the targets of batches 1..k and to no other; while a target is left out
\* these are the first 500 * k targets.
C9_CommittedPrefix ==
    LET k == Len(bulk.commits)
    IN /\ \A j \in 1..k :
              /\ UpToBefore(j) < bulk.commits[j].upTo
              /\ bulk.commits[j].docs =
                    {d \in Targets : UpToBefore(j) < d /\ d <= bulk.commits[j].upTo}
       /\ bulk.written =
             {d \in Targets : d <= (IF k = 0 THEN 0 ELSE bulk.commits[k].upTo)}
       /\ bulk.written # Targets => Cardinality(bulk.written) = batchSize * k
       /\ bulk.pc = "done" => bulk.written = Targets

\* a commit was rejected after at least one batch had been committed
C9_Witness ==
    /\ bulk.pc = "threw"
    /\ Len(bulk.commits) >= 1
    /\ bulk.batch # {}
    /\ bulk.written # Targets

(***************************************************************************)
(* Properties of the notification fan-out.                                 *)
(***************************************************************************)
Recipients == {fan.membersToNotify[k] : k \in DOMAIN fan.membersToNotify}

\* C10: when the unit of work of a recipient throws, at whatever step, the
\* recipients before it have had their unit of work attempted, and once the
\* handler has returned so has every other recipient; the error is not raised.
C10_FailureDoesNotStopOthers ==
    \A k \in DOMAIN fan.membersToNotify :
        fan.membersToNotify[k] \in DOMAIN fan.failedAt =>
            /\ \A j \in 1..(k - 1) : fan.membersToNotify[j] \in fan.attempted
            /\ fan.pc = "done" => Recipients \subseteq fan.attempted
            /\ fan.pc \in {"loop", "done"}
            /\ ~fan.outerError

\* of three recipients the second one failed, and the first and the third
\* had their notification created
C10_Witness ==
    /\ fan.pc = "done"
    /\ Len(fan.membersToNotify) = 3
    /\ fan.membersToNotify[2] \in DOMAIN fan.failedAt
    /\ fan.membersToNotify[1] \in fan.created
    /\ fan.membersToNotify[3] \in fan.created

\* C11: onGroceryItemAdded never ends with an error: after a failed read of
\* the grocery list or of the adder's profile the handler has returned, and
\* after any number of failed recipients it is still in its loop or has
\* returned.
C11_NeverRaises ==
    /\ fan.pc # "threw"
    /\ fan.outerError => fan.pc = "done"
    /\ DOMAIN fan.failedAt # {} => fan.pc \in {"loop", "done"}

\* the handler returned after a failed read outside the loop
C11_Witness == fan.pc = "done" /\ fan.outerError

\* the handler returned after the unit of work of every one of three
\* recipients had failed
C11_AllRecipientsFailed ==
    /\ fan.pc = "done"
    /\ Len(fan.membersToNotify) = 3
    /\ DOMAIN fan.failedAt = Recipients

(***************************************************************************)
(* Further properties of checkBudgetAlert.                                 *)
(***************************************************************************)
\* C12: an invocation whose event has no payload, or whose history item has
\* no userId, completes no awaited call (no document read or written), sends
\* nothing, and returns without raising.
C12_NoPayloadNoOp ==
    \A i \in Invs :
        (inv[i].pc # "none" /\ (~inv[i].hasSnapshot \/ inv[i].userId = NoUser)) =>
            /\ inv[i].ops = <<>>
            /\ inv[i].pc \in {"queued", "done"}
            /\ inv[i].failedAt = "none"
            /\ EffectsOf(i, "email") = {}
            /\ EffectsOf(i, "write") = {}

\* an invocation for an event without payload and one for an item without
\* userId have both returned
C12_Witness ==
    \E i, j \in Invs :
        /\ inv[i].pc = "done" /\ ~inv[i].hasSnapshot
        /\ inv[j].pc = "done" /\ inv[j].hasSnapshot /\ inv[j].userId = NoUser

\* the month's spend of user u, as the history query of an invocation that
\* reads the clock now would sum it
SpentNow(u) == SumAmounts(historyItems, u, clock)

\* C13: an invocation whose user has no email in the auth record returns
\* after the auth lookup: no spending query, no AlertRecord read, no email,
\* no AlertRecord, no error, whatever the user has spent.
C13_NoEmailNoOp ==
    \A i \in Invs :
        (Did(i, "getAuth") /\ ~authEmail[inv[i].userId]) =>
            /\ inv[i].pc = "done"
            /\ inv[i].failedAt = "none"
            /\ inv[i].ops = <<"getUserDoc", "getAuth">>
            /\ EffectsOf(i, "email") = {}
            /\ EffectsOf(i, "write") = {}
            /\ \A d \in budgetAlerts : d.id[1] # inv[i].userId

\* a user with a budget and no email has spent half of the budget this month
\* and an invocation for that user has returned
C13_Witness ==
    \E i \in Invs :
        /\ Did(i, "getAuth")
        /\ ~authEmail[inv[i].userId]
        /\ inv[i].pc = "done"
        /\ 2 * SpentNow(inv[i].userId) >= inv[i].monthlyBudget

\* C14: an invocation one of whose awaited calls rejected ends raising, and has
\* sent or written nothing after the failed call: it has written no
\* AlertRecord, and an AlertRecord under its key is the write of another
\* invocation.
C14_FailuresAreRaised ==
    \A i \in Invs :
        /\ inv[i].failedAt # "none" <=> inv[i].pc = "threw"
        /\ inv[i].failedAt # "none" =>
              /\ EffectsOf(i, "write") = {}
              /\ inv[i].failedAt # "write" /\ inv[i].failedAt # "none" =>
                    EffectsOf(i, "email") = {}
              /\ \A d \in budgetAlerts :
                    (Did(i, "getAuth")
                     /\ d.id = AlertDocId(inv[i].userId, inv[i].currentDate))
                        => \E k \in DOMAIN effects :
                               /\ effects[k].kind = "write"
                               /\ effects[k].id = d.id
                               /\ effects[k].inv # i

\* one invocation failed at the send and the store holds no AlertRecord
C14_Witness ==
    /\ \E i \in Invs : inv[i].failedAt = "send" /\ inv[i].pc = "threw"
    /\ budgetAlerts = {}

\* C15: an AlertRecord that exists is neither changed nor deleted by any step
\* of any handler.
C15_AlertRecordImmutable ==
    [][\A d \in budgetAlerts : d \in budgetAlerts']_vars

RECURSIVE SumOfAmounts(_)
\* the sum of the totalAmount fields of the history items at the positions ks
SumOfAmounts(ks) ==
    IF ks = {} THEN 0
    ELSE LET k == CHOOSE x \in ks : TRUE
         IN historyItems[k].totalAmount + SumOfAmounts(ks \ {k})

\* what user u has spent in the month of date: the history items of u dated
\* in that month which carry a totalAmount
MonthSpend(u, date) ==
    SumOfAmounts({k \in DOMAIN historyItems :
                     /\ historyItems[k].userId = u
                     /\ historyItems[k].date = date
                     /\ "totalAmount" \in DOMAIN historyItems[k]})

\* the spec's example: budget 1000, 450 spent before, a new item of 100
ExamplePercentage == DoublePercentage(450 + 100, 1000)

\* the double that follows d
NextDouble(d) == RoundNearestEven(d.bits, 1, TRUE, d.exp)

\* an invocation that found the spend at or above half of the budget goes on
\* to the AlertRecord read; one that found no AlertRecord and returned has
\* sent one email and written once; every AlertRecord holds the userId, the
\* budget, a spend of at least half of it and the percentage of that spend
AlertSentAndRecorded ==
    /\ \A i \in Invs :
          (Did(i, "query") /\ 2 * inv[i].totalSpent >= inv[i].monthlyBudget) =>
              \/ Did(i, "readAlert")
              \/ inv[i].pc = "readAlert"
              \/ inv[i].failedAt = "readAlert"
    /\ \A i \in Invs :
          (Did(i, "readAlert") /\ ~inv[i].landedAtRead /\ inv[i].pc = "done") =>
              /\ Cardinality(EffectsOf(i, "email")) = 1
              /\ Cardinality(EffectsOf(i, "write")) = 1
    /\ \A d \in budgetAlerts :
          /\ d.data.userId = d.id[1]
          /\ d.data.monthlyBudget = users[d.id[1]].data.budget
          /\ 2 * d.data.amountSpent >= d.data.monthlyBudget
          /\ d.data.percentageSpent =
                PercentageSpent(d.data.amountSpent, d.data.monthlyBudget)

\* the spending query sums the month's amounts, and the write stores the
\* invocation's sum and percentage under its key
QueryAndWriteSteps ==
    \A i \in Invs :
        /\ (inv[i].pc = "query" /\ inv'[i].pc \in {"readAlert", "done"}) =>
              inv'[i].totalSpent = MonthSpend(inv[i].userId, inv[i].currentDate)
        /\ (inv[i].pc = "write" /\ inv'[i].pc = "done") =>
              \E d \in budgetAlerts' :
                  /\ d.id = AlertDocId(inv[i].userId, inv[i].currentDate)
                  /\ d.data.userId = inv[i].userId
                  /\ d.data.amountSpent = inv[i].totalSpent
                  /\ d.data.monthlyBudget = inv[i].monthlyBudget
                  /\ d.data.percentageSpent = inv[i].percentageSpent

RECURSIVE Concat(_)
Concat(seqs) == IF seqs = <<>> THEN <<>> ELSE Head(seqs) \o Concat(Tail(seqs))

\* C17: sendBulkPushNotifications builds its messages for exactly the tokens
\* that pass Expo.isExpoPushToken, in their order, and hands no other token to
\* the push service; it never raises; it returns the tickets of the chunks the
\* service accepted, that is a ticket for every valid token when no send
\* fails, and an empty list with nothing sent when no token is valid.
C17_InvalidTokensSkipped ==
    push.fn = "bulk" =>
        /\ push.pc # "threw"
        /\ push.pc = "send" =>
              push.messages = SelectSeq(push.pushTokens, IsExpoPushToken)
        /\ \A k \in DOMAIN push.provider :
              \A j \in DOMAIN push.provider[k] :
                  /\ push.provider[k][j] \in ValidTokens
                  /\ \E n \in DOMAIN push.pushTokens :
                        push.pushTokens[n] = push.provider[k][j]
        /\ push.pc = "done" =>
              /\ push.result = Concat(push.provider)
              /\ push.failedChunks = 0 /\ push.messages # <<>> =>
                    push.result = SelectSeq(push.pushTokens, IsExpoPushToken)
              /\ SelectSeq(push.pushTokens, IsExpoPushToken) = <<>> =>
                    push.result = <<>> /\ push.provider = <<>>

\* a call with valid and invalid tokens returned the tickets of the valid ones
C17_Witness ==
    /\ push.fn = "bulk"
    /\ push.pc = "done"
    /\ \E n \in DOMAIN push.pushTokens : push.pushTokens[n] \notin ValidTokens
    /\ Len(push.result) >= 2
    /\ push.result = SelectSeq(push.pushTokens, IsExpoPushToken)

\* a call with nothing but invalid tokens returned an empty list
C17_AllInvalid ==
    /\ push.fn = "bulk"
    /\ push.pc = "done"
    /\ Len(push.pushTokens) >= 2
    /\ \A n \in DOMAIN push.pushTokens : push.pushTokens[n] \notin ValidTokens
    /\ push.result = <<>>

(***************************************************************************)
(* C18: what the validators return, stated without the code's helpers.     *)
(***************************************************************************)
\* positions of the characters that are not white space
NonSpace(chars) == {k \in 1..Len(chars) : chars[k] # " "}

\* the string between its first and its last non-blank character
Trimmed(chars) ==
    SubSeq(chars,
           CHOOSE a \in NonSpace(chars) : \A k \in NonSpace(chars) : a <= k,
           CHOOSE b \in NonSpace(chars) : \A k \in NonSpace(chars) : k <= b)

\* the name expected for a model item
ExpectedName(item) ==
    IF item.t = "object" /\ item.i.t = "string" /\ NonSpace(item.i.s) # {}
    THEN Str(Trimmed(item.i.s))
    ELSE Unknown

\* the price expected when every finite number is kept
FinitePrice(item) ==
    IF item.t = "object" /\ item.p.t = "number" /\ item.p.kind = "finite"
    THEN item.p
    ELSE ZeroPrice

\* the price expected when only finite numbers above 0 are kept
PositivePrice(item) ==
    IF item.t = "object" /\ item.p.t = "number" /\ item.p.kind = "finite"
       /\ item.p.n > 0
    THEN item.p
    ELSE ZeroPrice

\* the value validatePriceTagResult looks at
Candidate(data) == IF data.t = "array" THEN data.items[1] ELSE data

\* both validators returned what Price(_) and ExpectedName(_) prescribe
Normalised(Price(_)) ==
    /\ val.fn = "receipt" /\ val.pc = "done" =>
           /\ Len(val.items) = Len(val.data.items)
           /\ \A k \in 1..Len(val.items) :
                  /\ val.items[k].i = ExpectedName(val.data.items[k])
                  /\ val.items[k].p = Price(val.data.items[k])
    /\ val.fn = "priceTag" /\ val.pc = "done" =>
           IF val.data = Arr(<<>>)
           THEN val.item = [p |-> ZeroPrice, i |-> Unknown]
           ELSE /\ val.item.i = ExpectedName(Candidate(val.data))
                /\ val.item.p = Price(Candidate(val.data))

\* C18 (amended): for an array input validateReceiptItems returns an array of
\* the same length and order; each name is the trimmed input name when that
\* is a non-blank string and "unknown" otherwise; each price is the input
\* price when that is a finite number above 0 and 0 otherwise (a negative
\* price becomes 0); non-objects become {"unknown", 0}.
\* validatePriceTagResult does the same for a single item, the first element
\* of an array, an empty array giving {"unknown", 0}.
C18_ValidatorsNormalise == Normalised(PositivePrice)

\* C18 as stated: every finite number is kept as the price.
C18_AsStated == Normalised(FinitePrice)

\* a two-item array came back with a padded name trimmed and a negative
\* price replaced by 0
C18_Witness ==
    /\ val.fn = "receipt" /\ val.pc = "done" /\ Len(val.items) = 2
    /\ val.data.items[1] = Obj(Str(<<" ", "a", " ">>), Num("finite", 0 - 1))
    /\ val.items[1] = [i |-> Str(<<"a">>), p |-> ZeroPrice]
    /\ val.data.items[2] = Null
    /\ val.items[2] = [i |-> Unknown, p |-> ZeroPrice]

(***************************************************************************)
(* C19: leaveGroceryList after the caller was removed from the members.    *)
(***************************************************************************)
\* C19: once the caller has been removed from the list's members the call
\* reports success whatever fails afterwards, and the removal is never
\* undone.
C19_SuccessAfterRemoval ==
    leave.removed =>
        /\ leave.caller \notin leave.members
        /\ leave.pc = "done" => leave.result = "success"

\* the removal itself is never undone, whatever fails afterwards
C19_RemovalStays == leave.removed => leave.caller \notin leave.members

\* the profile lookup failed after the removal and the call ended in error
C19_ProfileLookupFailed ==
    /\ leave.pc = "done" /\ leave.removed
    /\ leave.result = "internal"
    /\ leave.caller \notin leave.members

(***************************************************************************)
(* C20: addCreditsToUser and malformed requests.                           *)
(***************************************************************************)
\* the id is missing or not a string
BadId == ~(credit.id.t = "string" /\ credit.id.s # <<>>)

\* the credits value is missing, not a number or not positive
BadCredits ==
    ~(credit.credits.t = "number" /\ credit.credits.kind = "finite"
      /\ credit.credits.n > 0)

\* the reason is missing or not a string
BadReason == ~(credit.reason.t = "string" /\ credit.reason.s # <<>>)

\* the request names a user without a document
NoSuchUser == credit.id.t = "string" /\ credit.id.s # ExistingUser

\* the request is not a well-formed POST for an existing user
Malformed ==
    credit.method # "POST" \/ BadId \/ BadCredits \/ BadReason \/ NoSuchUser

\* a malformed request never writes, and is answered by one of `codes`
\* unless the lookup of the user itself failed
Rejected(codes) ==
    Malformed =>
        /\ credit.writes = 0 /\ credit.balance = credit.before
        /\ credit.method # "POST" \/ BadId \/ BadCredits \/ BadReason
               => credit.reads = 0
        /\ credit.pc = "done" /\ ~credit.failed => credit.status \in codes

\* the status the request gets when no store call fails
ExpectedStatus ==
    IF credit.method = "OPTIONS" THEN 204
    ELSE IF credit.method # "POST" THEN 405
    ELSE IF BadId \/ BadCredits \/ BadReason THEN 400
    ELSE IF NoSuchUser THEN 404
    ELSE 200

\* C20 (amended): a request that is neither OPTIONS nor POST gets 405, a POST
\* with a missing or non-string id, a missing, non-numeric or non-positive
\* credits value, or a missing or non-string reason gets 400, a POST naming a
\* user that does not exist gets 404 (500 when the lookup itself fails), and
\* an OPTIONS request gets the preflight answer 204; in none of these cases
\* is a user document written, and only the 404 case reads one.
C20_MalformedRejected ==
    /\ Rejected({204, 405, 400, 404})
    /\ credit.pc = "done" /\ ~credit.failed => credit.status = ExpectedStatus

\* C20 as stated: every request that is not POST, or is malformed, gets 405,
\* 400 or 404 and writes nothing.
C20_AsStated == Rejected({405, 400, 404})

\* a POST with a negative amount for the existing user was answered 400, and
\* nothing was read or written
C20_Witness ==
    /\ credit.pc = "done" /\ credit.method = "POST"
    /\ credit.id = Str(ExistingUser) /\ credit.reason = Str(<<"r">>)
    /\ credit.credits = Num("finite", 0 - 1)
    /\ credit.status = 400 /\ credit.reads = 0 /\ credit.writes = 0

(***************************************************************************)
(* C21: the size of the write batches of onUserDeleted and of              *)
(* leaveGroceryList.                                                       *)
(***************************************************************************)
\* the items of the caller that the conversion batch of leaveGroceryList
\* has set to GroceryListId null
Converted == {k \in DOMAIN leave.items : leave.items[k] = "null"}

\* C21: every committed write batch holds at most 500 staged operations,
\* whatever the number of matching documents: each per-collection delete
\* batch of onUserDeleted and the item-conversion batch of leaveGroceryList.
C21_BatchesWithinCeiling ==
    /\ \A k \in DOMAIN del.commits :
          Cardinality(del.commits[k].docs) <= batchSize
    /\ Cardinality(Converted) <= batchSize

\* onUserDeleted committed one batch with 501 deletes
C21_OversizedDelete ==
    \E k \in DOMAIN del.commits :
        Cardinality(del.commits[k].docs) = batchSize + 1

(***************************************************************************)
(* C22: every target of a chunked bulk operation is committed once.        *)
(***************************************************************************)
\* the committed batches target d was staged in
CommitsOf(d) == {k \in DOMAIN bulk.commits : d \in bulk.commits[k].docs}

\* C22: when bulkUpdateTodosWithCreatedAt or fetchAllUsersAndSaveToFirestore
\* completes without error, every target has been staged in exactly one
\* committed batch; no target is ever committed twice, and while targets
\* remain the accumulator holds none of the committed operations, so it
\* starts again from zero after each commit.
C22_EachTargetCommittedOnce ==
    /\ \A d \in 1..bulk.size : Cardinality(CommitsOf(d)) <= 1
    /\ bulk.pc = "done" => \A d \in Targets : Cardinality(CommitsOf(d)) = 1
    /\ (bulk.pc = "loop" /\ bulk.i <= bulk.size) =>
          /\ bulk.batch \cap bulk.written = {}
          /\ Cardinality(bulk.batch) = bulk.batchCount

\* a run of the todo script that skipped documents has completed with a
\* full batch and a final shorter one
C22_Witness ==
    /\ bulk.script = "todos" /\ bulk.pc = "done"
    /\ bulk.skippedCount > 0
    /\ Len(bulk.commits) = 2
    /\ BatchLen(1) = batchSize /\ BatchLen(2) < batchSize

(***************************************************************************)
(* C23: the place of the auth lookup in checkBudgetAlert.                  *)
(***************************************************************************)
\* C23: checkBudgetAlert consults the auth provider only after the threshold
\* has been reached and the AlertRecord lookup found nothing: an invocation
\* that has performed the auth lookup, or failed on it, has read the
\* AlertRecord before and found none, so an invocation below 50% or with an
\* existing AlertRecord cannot fail or return early on the lookup.
C23_AuthLookupAfterAlertLookup ==
    \A i \in Invs :
        (Did(i, "getAuth") \/ inv[i].failedAt = "getAuth") =>
            /\ Did(i, "readAlert")
            /\ CrossedThreshold(inv[i].percentageSpent)

\* an invocation for a user who has spent nothing failed on the auth lookup
C23_FailedBelowThreshold ==
    \E i \in Invs :
        /\ inv[i].pc = "threw" /\ inv[i].failedAt = "getAuth"
        /\ inv[i].userId # NoUser
        /\ SpentNow(inv[i].userId) = 0

(***************************************************************************)
(* C24: one AlertRecord per user and month, whatever the interleaving.     *)
(***************************************************************************)
\* the log positions of the emails sent for AlertRecord id
EmailsFor(id) ==
    {k \in DOMAIN effects : effects[k].kind = "email" /\ effects[k].id = id}

\* C24: in every interleaving of checkBudgetAlert invocations at most one
\* budget-alerts document exists per (userId, year, month): every write goes
\* to the document whose id is made of these three, so a race duplicates
\* emails, never AlertRecords.
C24_OneRecordPerUserAndMonth ==
    \A d, e \in budgetAlerts :
        /\ d.id = <<d.data.userId, d.data.year, d.data.month>>
        /\ (d.data.userId = e.data.userId /\ d.data.year = e.data.year
            /\ d.data.month = e.data.month) => d = e

\* two overlapping invocations have both sent the alert and both written:
\* two emails, one AlertRecord
C24_Witness ==
    \E d \in budgetAlerts :
        /\ Cardinality(EmailsFor(d.id)) = 2
        /\ Cardinality({k \in DOMAIN effects :
                           effects[k].kind = "write" /\ effects[k].id = d.id}) = 2
        /\ Cardinality({e \in budgetAlerts : e.id = d.id}) = 1

(***************************************************************************)
(* C29: the dedup key of checkBudgetAlert.                                 *)
(***************************************************************************)
\* the document ids of all the triples
AllKeys == {AlertDocKey(k[1], k[2], k[3]) : k \in KeyInputs}

\* different (userId, year, month) triples get different document ids
KeyIsInjective == Cardinality(AllKeys) = Cardinality(KeyInputs)

\* the characters of the model's userIds
IdChars(u) == IF u = "u1" THEN <<"u", "1">> ELSE <<"u", "2">>

\* the document id of AlertRecord d, formatted from its fields
KeyOf(d) == AlertDocKey(IdChars(d.data.userId), d.data.year, d.data.month)

\* the AlertRecords of the store have different document ids
RecordKeysDiffer == \A d, e \in budgetAlerts : d # e => KeyOf(d) # KeyOf(e)

\* an invocation stops at the AlertRecord read only on a record of its own
\* user and of the month of its clock reading, the month whose spend it
\* summed; whenever no such record exists it goes on to send
DedupSteps ==
    \A i \in Invs :
        /\ (inv[i].pc = "query" /\ inv'[i].pc \in {"readAlert", "done"}) =>
              inv'[i].totalSpent = MonthSpend(inv[i].userId, inv[i].currentDate)
        /\ (inv[i].pc = "readAlert" /\ inv'[i].pc = "done") =>
              \E d \in budgetAlerts :
                  /\ d.data.userId = inv[i].userId
                  /\ d.data.year = getFullYear(inv[i].currentDate)
                  /\ d.data.month = getMonth(inv[i].currentDate)
        /\ (inv[i].pc = "readAlert"
            /\ \A d \in budgetAlerts :
                   \/ d.data.userId # inv[i].userId
                   \/ d.data.year # getFullYear(inv[i].currentDate)
                   \/ d.data.month # getMonth(inv[i].currentDate)) =>
              inv'[i].pc \in {"readAlert", "send", "threw"}

\* C29: an AlertRecord for (user A, year Y, month M) never suppresses an alert
\* for another user or another month: the document id is injective in
\* (userId, year, month), and an invocation derives the spending window and
\* the id from one clock reading, so the record it checks is the one of the
\* month whose spend it summed.
C29_DedupKeyIsExact ==
    /\ [](KeyIsInjective /\ RecordKeysDiffer)
    /\ [][DedupSteps]_vars

\* while AlertRecords of the other user and of the same user's previous month
\* exist, an invocation has read its own AlertRecord, found none and sent
C29_Witness ==
    \E i \in Invs :
        /\ inv[i].pc \in {"write", "done"} /\ EffectsOf(i, "email") # {}
        /\ \E d \in budgetAlerts :
              d.data.userId = inv[i].userId
              /\ d.data.month # getMonth(inv[i].currentDate)

(***************************************************************************)
(* C25: overlapping addCreditsToUser requests.                             *)
(***************************************************************************)
RECURSIVE CreditsAdded(_)
\* the sum of the credits of the requests cs that were answered 200
CreditsAdded(cs) ==
    IF cs = {} THEN 0
    ELSE LET c == CHOOSE x \in cs : TRUE
         IN (IF adds.calls[c].pc = "done" THEN adds.calls[c].credits ELSE 0)
            + CreditsAdded(cs \ {c})

\* C25: once every request has been answered, the stored ai.credits is the
\* balance before the requests plus the credits of those that returned
\* success, also when requests overlap.
C25_NoCreditsLost ==
    (\A c \in Calls : adds.calls[c].pc \in {"none", "done", "failed"}) =>
        adds.balance = adds.before + CreditsAdded(Calls)

\* two requests returned success and the balance grew by less than their sum
C25_LostUpdate ==
    /\ \A c \in Calls : adds.calls[c].pc = "done"
    /\ adds.balance < adds.before + CreditsAdded(Calls)

(***************************************************************************)
(* C26: the calls leaveGroceryList rejects.                                *)
(***************************************************************************)
\* the caller may not leave: not authenticated, no list id, no such list,
\* the owner, or not a member (and so not removed by this call either)
MayNotLeave ==
    /\ ~leave.removed
    /\ \/ ~leave.auth
       \/ ~leave.idOk
       \/ ~leave.exists
       \/ leave.caller = leave.owner
       \/ leave.caller \notin leave.members

\* a call that may not go through ends with an error and has changed nothing
RejectedLeave ==
    MayNotLeave =>
        /\ leave.notifications = 0
        /\ \A k \in DOMAIN leave.items : leave.items[k] = "list"
        /\ leave.pc \notin {"update", "queryItems", "commit", "getUser", "notify"}
        /\ leave.pc = "done" =>
              /\ leave.result \in HttpsErrors
              /\ ~leave.auth => leave.result = "unauthenticated"
              /\ (leave.auth /\ ~leave.idOk) => leave.result = "invalid-argument"

\* no step of such a call changes members, items or notifications, and the
\* only change of members there is removes the caller, a member other than
\* the owner
LeaveSteps ==
    /\ MayNotLeave =>
          /\ leave'.members = leave.members
          /\ leave'.items = leave.items
          /\ leave'.notifications = leave.notifications
    /\ leave'.members # leave.members =>
          /\ leave.auth /\ leave.idOk /\ leave.exists
          /\ leave.caller \in leave.members
          /\ leave.caller # leave.owner
          /\ leave'.members = leave.members \ {leave.caller}

\* C26: leaveGroceryList rejects the call with an error and leaves the
\* members, every grocery item and the notifications unchanged whenever the
\* caller is unauthenticated, groceryListId is missing or not a string, the
\* list does not exist, the caller is the owner, or the caller is not in
\* members; only a member other than the owner is ever removed, and only the
\* caller.
C26_RejectedCallsChangeNothing == []RejectedLeave /\ [][LeaveSteps]_vars

\* the owner, who is also listed in members and owns items of the list, was
\* refused
C26_Witness ==
    /\ leave.pc = "done" /\ leave.result = "permission-denied"
    /\ leave.caller = leave.owner /\ leave.caller \in leave.members
    /\ Len(leave.items) = 2

(***************************************************************************)
(* C27: the notification records of one created grocery item.              *)
(***************************************************************************)
\* the owner and the members of the list, without the user who added the item
ExpectedRecipients ==
    IF fan.event = "ok" /\ fan.listExists
    THEN ({fan.owner} \cup {fan.members[k] : k \in DOMAIN fan.members})
             \ {NoOwner, fan.userId}
    ELSE {}

\* the recipients the loop goes through are the expected ones, each once,
\* and notification records exist for expected recipients only
OneRecordPerRecipient ==
    /\ fan.pc \in {"getAddedBy", "loop"} => Recipients = ExpectedRecipients
    /\ \A j, k \in DOMAIN fan.membersToNotify :
          fan.membersToNotify[j] = fan.membersToNotify[k] => j = k
    /\ fan.created \subseteq ExpectedRecipients
    /\ fan.userId \notin fan.created
    /\ fan.attempted \subseteq ExpectedRecipients
    /\ (fan.pc = "done" /\ ~fan.outerError /\ DOMAIN fan.failedAt = {}) =>
          fan.created = ExpectedRecipients

\* a notification record is added only for a recipient who has none yet
NotificationSteps ==
    (fan.pc = "loop" /\ fan.step = "add" /\ fan'.step = "tokens") =>
        /\ Member \notin fan.created
        /\ fan'.created = fan.created \cup {Member}

\* C27: for one created grocery item onGroceryItemAdded creates at most one
\* notification record per distinct recipient, the recipients being the
\* list's owner and members, duplicates removed, without the user who added
\* the item; that user never gets one, and an item without list id, a
\* missing list or a list with no other member creates none.
C27_OneNotificationPerRecipient ==
    []OneRecordPerRecipient /\ [][NotificationSteps]_vars

\* the owner, listed again in members, got one record and the member who
\* added the item got none
C27_Witness ==
    /\ fan.pc = "done"
    /\ fan.owner = "a" /\ fan.members = <<"b", "a">> /\ fan.userId = "b"
    /\ fan.created = {"a"}

(***************************************************************************)
(* C28: the state an onUserDeleted run ends in, with and without re-runs.  *)
(***************************************************************************)
\* no users/uid document, no owned document in any of the five collections,
\* and the deleted-users/uid record
UserIsCleanedUp ==
    /\ ~del.userDoc
    /\ \A c \in Collections : del.owned[c] = {}
    /\ del.deletedUser

\* C28: an onUserDeleted run that completes leaves no users/uid document, no
\* document with userId = uid in grocery-items, todos, grocery-lists,
\* history-items or recent-search-items, and a deleted-users/uid record; a
\* run that fails raises, and a re-run from the partial state it left which
\* completes ends in that same state.
C28_CompletedRunCleansUp ==
    /\ del.pc = "done" => UserIsCleanedUp
    /\ \A k \in DOMAIN del.commits : del.commits[k].docs # {}

\* the second re-run completed, after runs that had failed with part of the
\* documents deleted
C28_Witness ==
    /\ del.pc = "done" /\ del.retries = 2
    /\ Len(del.commits) = 5
    /\ UserIsCleanedUp

(***************************************************************************)
(* C30: testBudgetAlert next to checkBudgetAlert.                          *)
(***************************************************************************)
\* a request answered with 200 has sent its email, whatever the percentage
\* and whether or not the AlertRecord of the month existed; one answered
\* otherwise after the checks has not
TestAlertSent ==
    /\ test.status = 200 => test.sent
    /\ test.status \in {400, 404} => ~test.sent
    /\ test.sent => test.userId \in Users /\ test.budget > 0

\* every AlertRecord was written by a checkBudgetAlert invocation, and every
\* email of the log was sent by one
RecordsAreTheMonitors ==
    /\ \A d \in budgetAlerts : Landed(d.id)
    /\ \A k \in DOMAIN effects : effects[k].inv \in 1..MaxInv

\* a step of the request leaves everything checkBudgetAlert reads or writes
\* as it was
TestSteps == test' # test => UNCHANGED alertVars

\* C30: testBudgetAlert never reads or writes the budget-alerts collection
\* and ignores the 50% threshold: a test alert is sent whether or not an
\* AlertRecord exists, creates none, and leaves the stores, the clock and the
\* invocations that determine every later checkBudgetAlert outcome unchanged.
C30_TestAlertLeavesMonitorAlone ==
    /\ [](TestAlertSent /\ RecordsAreTheMonitors)
    /\ [][TestSteps]_vars

\* the test alert was sent while the AlertRecord of the month existed, and no
\* second record appeared
C30_Witness ==
    /\ test.status = 200 /\ test.sent /\ test.landedAtSend
    /\ Cardinality(budgetAlerts) = 1

====
